---- MODULE Spec2Model ----
(***************************************************************************)
(* Control core of the zoned, self-learning thermostat (src/app.py):       *)
(* RoomController.step, the overshoot model and ThermostatApp.run.         *)
(*                                                                         *)
(* Fixed point: every temperature, hysteresis and overshoot is an integer  *)
(* number of 0.001 degC, every slope an integer number of 0.001 degC per   *)
(* minute, every time an integer number of seconds.  The code computes in  *)
(* binary floating point; quotients are taken with \div here.              *)
(* An optional value (Python None) is the empty tuple, a present value v   *)
(* is <<v>>.                                                               *)
(***************************************************************************)
EXTENDS Integers, Sequences, FiniteSets, TLC

VARIABLES
    now,             \* wall clock, now_ts(), seconds
    cycles,          \* completed cycles of the while-loop of run()
    pc,              \* position of run() inside one cycle
    idx,             \* index into rooms of the next room of the for-loop
    mode,            \* mode read for this cycle (_read_mode)
    outdoor,         \* outdoor temperature read for this cycle
    cfg,             \* controller_cfg as read at the top of run()
    rooms,           \* registered room ids, in iteration order (self.rooms)
    enabled,         \* enabled flag per room of self.rooms_map (startup)
    friendly_name,   \* RoomController.friendly_name
    heating_cmd,     \* RoomController.heating_cmd
    last_switch_ts,  \* RoomController.last_switch_ts (0 = never switched)
    last_temp,       \* RoomController.last_temp
    last_ts,         \* RoomController.last_ts
    ema_slope_on,    \* RoomController.ema_slope_on
    ema_slope_off,   \* RoomController.ema_slope_off
    pending_ov,      \* RoomController.pending_ov
    learning,        \* the shared learning store, learning["rooms"]
    tick,            \* history: what the room's last tick read and started from
    setp_file,       \* the room's setpoint.txt
    hyst_file,       \* the room's hysteresis.txt
    mode_file,       \* external/mode.txt as this cycle read it
    feed,            \* the readings the bridge may publish for the room
    rooms_file,      \* config/rooms.json on disk: name and enabled flag per room
    status,          \* the room's status.json as last written
    cmd_file,        \* the room's command_heat.txt as last written
    learning_file,   \* config/learning.json as last written
    io               \* history: what the running cycle has done so far, in order

vars == <<now, cycles, pc, idx, mode, outdoor, cfg, rooms, enabled, friendly_name,
          heating_cmd, last_switch_ts, last_temp, last_ts, ema_slope_on,
          ema_slope_off, pending_ov, learning, tick, setp_file, hyst_file,
          mode_file, feed, rooms_file, status, cmd_file, learning_file, io>>

roomVars == <<heating_cmd, last_switch_ts, last_temp, last_ts, ema_slope_on,
              ema_slope_off, pending_ov, learning, tick, status, cmd_file>>

fileVars == <<setp_file, hyst_file, feed, rooms_file>>

cfgVars == <<cfg, rooms, enabled, friendly_name>>

diskVars == <<learning_file, io>>

-----------------------------------------------------------------------------
(* Bounds of the model *)

MaxCycles == 3

-----------------------------------------------------------------------------
(* Program constants, src/app.py lines 16-30 *)

DEFAULT_SETPOINT == 21000
DEFAULT_HYSTERESIS == 300
DEFAULT_MIN_ON_SECONDS == 120
DEFAULT_MIN_OFF_SECONDS == 120
DEFAULT_TAU_MIN == 5
DEFAULT_SLOPE_EMA_WINDOW_S == 300
DEFAULT_OVERSHOOT_EMA_ALPHA == 20     \* 0.2, in hundredths
DEFAULT_EPS_TEMP == 10                \* 0.01 degC
EPISODE_MAX_S == 900                  \* 15 * 60

OUTDOOR_BINS == << <<-30, -10>>, <<-10, 0>>, <<0, 10>>, <<10, 20>>, <<20, 35>>, <<35, 60>> >>

-----------------------------------------------------------------------------
(* Helpers *)

None == <<>>
Some(v) == <<v>>
Val(x) == x[1]

Max(a, b) == IF a >= b THEN a ELSE b
Min(a, b) == IF a <= b THEN a ELSE b

\* f"{lo}..{hi}" for the bins of OUTDOOR_BINS
BinName == <<"-30..-10", "-10..0", "0..10", "10..20", "20..35", "35..60">>

BinKeys == {BinName[i] : i \in 1..Len(BinName)} \cup {"unknown"}

\* Variant: the upper edge of a bin belongs to the bin
TempToBinKeyClosed(outdoor_temp) ==
    IF outdoor_temp = None THEN "unknown"
    ELSE LET t == Val(outdoor_temp)
             hit == {i \in 1..Len(OUTDOOR_BINS) :
                        /\ OUTDOOR_BINS[i][1] * 1000 <= t
                        /\ t <= OUTDOOR_BINS[i][2] * 1000}
         IN  IF hit = {} THEN "unknown"
             ELSE BinName[CHOOSE i \in hit : \A j \in hit : i <= j]

\* temp_to_bin_key: the first bin of OUTDOOR_BINS with lo <= t < hi
temp_to_bin_key(outdoor_temp) ==
    IF outdoor_temp = None THEN "unknown"
    ELSE LET t == Val(outdoor_temp)
             hit == {i \in 1..Len(OUTDOOR_BINS) :
                        /\ OUTDOOR_BINS[i][1] * 1000 <= t
                        /\ t < OUTDOOR_BINS[i][2] * 1000}
         IN  IF hit = {} THEN "unknown"
             ELSE BinName[CHOOSE i \in hit : \A j \in hit : i <= j]

\* safe_read_float: an absent, empty or unparseable file gives the default
safe_read_float(s, default) == IF s = None THEN default ELSE Val(s)

-----------------------------------------------------------------------------
(* The retry wrapper.  What the I/O operation does on each attempt is a    *)
(* function on 1..IO_RETRIES: attempt i returns a value or raises an       *)
(* exception known by its errno.                                            *)

IO_RETRIES == 5

Returns(v) == [ok |-> TRUE, val |-> v]
Raises(errno) == [ok |-> FALSE, val |-> errno]

\* the operation of a file in the given state: a file that is there is
\* read at once, a file that is not raises ENOENT every time
Attempts(content) ==
    [i \in 1..IO_RETRIES |-> IF content = None THEN Raises(2)
                             ELSE Returns(Val(content))]

\* the wrapper did nothing: no call, no wait, no result
NoRead == [trace |-> <<>>, raised |-> None, result |-> None]

\* Variant: the wrapper waits after every failed attempt, the last too
RECURSIVE RetryFromWaitingLast(_, _, _)
RetryFromWaitingLast(fn, attempt, trace) ==
    IF attempt >= IO_RETRIES
    THEN [trace |-> trace, raised |-> None, result |-> None]
    ELSE LET called == Append(trace, "call")
         IN  IF fn[attempt + 1].ok
             THEN [trace |-> called, raised |-> None,
                   result |-> Some(fn[attempt + 1].val)]
             ELSE IF attempt < IO_RETRIES - 1
                  THEN RetryFromWaitingLast(fn, attempt + 1, Append(called, "sleep"))
                  ELSE [trace |-> Append(called, "sleep"),
                        raised |-> Some(fn[attempt + 1].val), result |-> None]

\* _retry_io from the given attempt of its loop on (attempt counts from 0):
\* the calls and waits so far are in trace; the outcome is what is
\* returned, or the exception raised
RECURSIVE RetryFrom(_, _, _)
RetryFrom(fn, attempt, trace) ==
    IF attempt >= IO_RETRIES
    THEN [trace |-> trace, raised |-> None, result |-> None]
    ELSE LET called == Append(trace, "call")
         IN  IF fn[attempt + 1].ok
             THEN [trace |-> called, raised |-> None,
                   result |-> Some(fn[attempt + 1].val)]
             ELSE IF attempt < IO_RETRIES - 1
                  THEN RetryFrom(fn, attempt + 1, Append(called, "sleep"))
                  ELSE [trace |-> called,
                        raised |-> Some(fn[attempt + 1].val), result |-> None]

_retry_io(fn) == RetryFrom(fn, 0, <<>>)

\* safe_read_text: the text read, or None when the wrapper raised
safe_read_text(fn) ==
    IF _retry_io(fn).raised # None THEN None ELSE _retry_io(fn).result

-----------------------------------------------------------------------------
(* The learning store *)

EmptyBins == [k \in {} |-> [overshoot |-> 0, count |-> 0]]

NewNode == [bins |-> EmptyBins, ema_slope_on |-> None, ema_slope_off |-> None]

\* _learning_node: the room's node, created when missing
LearningNode(L, r) == IF r \in DOMAIN L THEN L ELSE L @@ (r :> NewNode)

\* _overshoot_bin: the bin of the room, created with overshoot 0.0, count 0
OvershootBin(L, r, key) ==
    LET L1 == LearningNode(L, r)
    IN  IF key \in DOMAIN L1[r].bins THEN L1
        ELSE [L1 EXCEPT ![r].bins = @ @@ (key :> [overshoot |-> 0, count |-> 0])]

\* Variant: the observation is not clamped at 0
UpdateOvershootModelNoClamp(L, r, key, observed_overshoot) ==
    LET L1 == OvershootBin(L, r, key)
        b == L1[r].bins[key]
        a == DEFAULT_OVERSHOOT_EMA_ALPHA
        ov == IF b.count = 0 THEN observed_overshoot
              ELSE ((100 - a) * b.overshoot + a * observed_overshoot) \div 100
    IN  [L1 EXCEPT ![r].bins[key] = [overshoot |-> ov, count |-> b.count + 1]]

\* Variant: the weights of the old estimate and of the observation swapped
UpdateOvershootModelSwapped(L, r, key, observed_overshoot) ==
    LET L1 == OvershootBin(L, r, key)
        b == L1[r].bins[key]
        a == DEFAULT_OVERSHOOT_EMA_ALPHA
        ov == IF b.count = 0 THEN Max(0, observed_overshoot)
              ELSE (a * b.overshoot + (100 - a) * Max(0, observed_overshoot)) \div 100
    IN  [L1 EXCEPT ![r].bins[key] = [overshoot |-> ov, count |-> b.count + 1]]

\* _update_overshoot_model
UpdateOvershootModel(L, r, key, observed_overshoot) ==
    LET L1 == OvershootBin(L, r, key)
        b == L1[r].bins[key]
        a == DEFAULT_OVERSHOOT_EMA_ALPHA
        ov == IF b.count = 0 THEN Max(0, observed_overshoot)
              ELSE ((100 - a) * b.overshoot + a * Max(0, observed_overshoot)) \div 100
    IN  [L1 EXCEPT ![r].bins[key] = [overshoot |-> ov, count |-> b.count + 1]]

\* Variant: the slope fallback is left out
PredictedOvershootLearnedOnly(L, r, key, tau_min) ==
    OvershootBin(L, r, key)[r].bins[key].overshoot

\* Variant: the slope term is counted whatever its sign
PredictedOvershootAnySlope(L, r, key, tau_min) ==
    LET L1 == OvershootBin(L, r, key)
        learned == L1[r].bins[key].overshoot
        ema_on == L1[r].ema_slope_on
        fallback == IF ema_on # None THEN Val(ema_on) * tau_min ELSE 0
    IN  Max(learned, fallback)

\* _predicted_overshoot, the value it returns
PredictedOvershoot(L, r, key, tau_min) ==
    LET L1 == OvershootBin(L, r, key)
        learned == L1[r].bins[key].overshoot
        ema_on == L1[r].ema_slope_on
        fallback == IF ema_on # None /\ Val(ema_on) > 0 THEN Val(ema_on) * tau_min ELSE 0
    IN  Max(learned, fallback)

\* Variant: the weights of the old average and of the new value swapped
UpdateEmaSwapped(current, new_val, dt_sec, window_s) ==
    IF current = None THEN new_val
    ELSE (dt_sec * Val(current) + window_s * new_val) \div (window_s + dt_sec)

\* _update_ema
UpdateEma(current, new_val, dt_sec, window_s) ==
    IF current = None THEN new_val
    ELSE (window_s * Val(current) + dt_sec * new_val) \div (window_s + dt_sec)

-----------------------------------------------------------------------------
(* RoomController.step, piece by piece *)

\* Variant: the zone's override is taken as it is written
EffectiveHystNoClamp(hyst_raw, global_hyst) ==
    Max(safe_read_float(hyst_raw, DEFAULT_HYSTERESIS), global_hyst)

\* _read_inputs and line 308: hyst = max(max(0.0, room_hyst), global_hyst)
EffectiveHyst(hyst_raw, global_hyst) ==
    Max(Max(0, safe_read_float(hyst_raw, DEFAULT_HYSTERESIS)), global_hyst)

\* lines 310-316: the slope of this tick, None on the room's first tick
SlopePerMin(temp, lt, lts, ts) ==
    IF lt = None THEN None
    ELSE LET dt_sec == Max(1, ts - Val(lts))
         IN  Some(((temp - Val(lt)) * 60) \div dt_sec)

\* Variant: the average is updated whatever the phase of the room
PhaseEmaAnyPhase(current, slope, in_phase, dt_sec) ==
    IF slope # None
    THEN Some(UpdateEma(current, Val(slope), dt_sec, DEFAULT_SLOPE_EMA_WINDOW_S))
    ELSE current

\* lines 318-325: the average of one phase after the tick; in_phase says
\* whether the room's command at the start of the tick is that phase
PhaseEma(current, slope, in_phase, dt_sec) ==
    IF slope # None /\ in_phase
    THEN Some(UpdateEma(current, Val(slope), dt_sec, DEFAULT_SLOPE_EMA_WINDOW_S))
    ELSE current

\* Variant: an episode closes on a temperature drop only
ClosingOnDropOnly(pend, lt, current_temp, ts) ==
    lt # None /\ current_temp <= Val(lt) - DEFAULT_EPS_TEMP

\* lines 292-298: whether the open episode closes on this tick
Closing(pend, lt, current_temp, ts) ==
    \/ lt # None /\ current_temp <= Val(lt) - DEFAULT_EPS_TEMP
    \/ ts - Val(pend).off_ts >= EPISODE_MAX_S

\* Variant: the episode is kept after it has been recorded
FinalizePendingKeep(L, r, pend, lt, current_temp, ts, key) ==
    IF pend = None THEN [L |-> L, pend |-> pend]
    ELSE LET peak == Max(Val(pend).peak_temp, current_temp)
             p1 == [Val(pend) EXCEPT !.peak_temp = peak]
         IN  IF Closing(pend, lt, current_temp, ts)
             THEN [L |-> UpdateOvershootModel(L, r, key,
                             Max(0, peak - p1.setpoint_at_off)),
                   pend |-> Some(p1)]
             ELSE [L |-> L, pend |-> Some(p1)]

\* Variant: the overshoot is measured from the temperature at the switch
FinalizePendingFromTempAtOff(L, r, pend, lt, current_temp, ts, key) ==
    IF pend = None THEN [L |-> L, pend |-> pend]
    ELSE LET peak == Max(Val(pend).peak_temp, current_temp)
             p1 == [Val(pend) EXCEPT !.peak_temp = peak]
         IN  IF Closing(pend, lt, current_temp, ts)
             THEN [L |-> UpdateOvershootModel(L, r, key,
                             Max(0, peak - p1.temp_at_off)),
                   pend |-> None]
             ELSE [L |-> L, pend |-> Some(p1)]

\* lines 328-332 and _finalize_pending_overshoot_if_ready: the peak, then
\* the close.  Gives the store and the episode after them.
FinalizePending(L, r, pend, lt, current_temp, ts, key) ==
    IF pend = None THEN [L |-> L, pend |-> pend]
    ELSE LET peak == Max(Val(pend).peak_temp, current_temp)
             p1 == [Val(pend) EXCEPT !.peak_temp = peak]
         IN  IF Closing(pend, lt, current_temp, ts)
             THEN [L |-> UpdateOvershootModel(L, r, key,
                             Max(0, peak - p1.setpoint_at_off)),
                   pend |-> None]
             ELSE [L |-> L, pend |-> Some(p1)]

\* line 340: "never switched" counts as 1e9 minutes; any number of seconds
\* above every hold and every clock value stands for it here
NEVER_SWITCHED_S == 2000000000

\* Variant: a zone never switched counts from the epoch
SecondsSinceEpoch(ts, lsw) == ts - lsw

\* line 340, times 60: seconds since the last switch
SecondsSinceSwitch(ts, lsw) == IF lsw > 0 THEN ts - lsw ELSE NEVER_SWITCHED_S

\* Variant: the mode is not looked at
DecideIgnoringMode(cmd, m, temp, setpoint, hyst, pred_ov, since_s, min_on_s, min_off_s) ==
    LET c1 == IF cmd = 1
              THEN IF temp >= Min(setpoint - pred_ov, setpoint) /\ since_s >= min_on_s
                   THEN 0 ELSE 1
              ELSE IF temp <= setpoint - hyst /\ since_s >= min_off_s
                   THEN 1 ELSE 0
    IN  IF temp >= setpoint + hyst THEN 0 ELSE c1

\* Variant: the min-on hold is not checked
DecideNoHold(cmd, m, temp, setpoint, hyst, pred_ov, since_s, min_on_s, min_off_s) ==
    IF m = "off" THEN 0
    ELSE LET c1 == IF cmd = 1
                   THEN IF temp >= Min(setpoint - pred_ov, setpoint) THEN 0 ELSE 1
                   ELSE IF temp <= setpoint - hyst /\ since_s >= min_off_s
                        THEN 1 ELSE 0
         IN  IF temp >= setpoint + hyst THEN 0 ELSE c1

\* Variant: no safety cutoff
DecideNoSafety(cmd, m, temp, setpoint, hyst, pred_ov, since_s, min_on_s, min_off_s) ==
    IF m = "off" THEN 0
    ELSE IF cmd = 1
         THEN IF temp >= Min(setpoint - pred_ov, setpoint) /\ since_s >= min_on_s
              THEN 0 ELSE 1
         ELSE IF temp <= setpoint - hyst /\ since_s >= min_off_s
              THEN 1 ELSE 0

\* Variant: the switch-on threshold is exclusive
DecideStrictOn(cmd, m, temp, setpoint, hyst, pred_ov, since_s, min_on_s, min_off_s) ==
    IF m = "off" THEN 0
    ELSE LET c1 == IF cmd = 1
                   THEN IF temp >= Min(setpoint - pred_ov, setpoint) /\ since_s >= min_on_s
                        THEN 0 ELSE 1
                   ELSE IF temp < setpoint - hyst /\ since_s >= min_off_s
                        THEN 1 ELSE 0
         IN  IF temp >= setpoint + hyst THEN 0 ELSE c1

\* Variant: the predicted overshoot is not subtracted from the trigger
DecideNoAnticipation(cmd, m, temp, setpoint, hyst, pred_ov, since_s, min_on_s, min_off_s) ==
    IF m = "off" THEN 0
    ELSE LET c1 == IF cmd = 1
                   THEN IF temp >= setpoint /\ since_s >= min_on_s
                        THEN 0 ELSE 1
                   ELSE IF temp <= setpoint - hyst /\ since_s >= min_off_s
                        THEN 1 ELSE 0
         IN  IF temp >= setpoint + hyst THEN 0 ELSE c1

\* lines 337-350: the command of this tick
Decide(cmd, m, temp, setpoint, hyst, pred_ov, since_s, min_on_s, min_off_s) ==
    IF m = "off" THEN 0
    ELSE LET c1 == IF cmd = 1
                   THEN IF temp >= Min(setpoint - pred_ov, setpoint) /\ since_s >= min_on_s
                        THEN 0 ELSE 1
                   ELSE IF temp <= setpoint - hyst /\ since_s >= min_off_s
                        THEN 1 ELSE 0
         IN  IF temp >= setpoint + hyst THEN 0 ELSE c1

\* Variant: a switch to ON leaves the episode in place
SwitchEpisodeKeep(prev_cmd, new_cmd, pend, ts, temp, setpoint) ==
    IF prev_cmd = 1 /\ new_cmd = 0
    THEN Some([off_ts |-> ts, temp_at_off |-> temp,
               setpoint_at_off |-> setpoint, peak_temp |-> temp])
    ELSE pend

\* Variant: an episode is opened only above the setpoint
SwitchEpisodeAboveSetpoint(prev_cmd, new_cmd, pend, ts, temp, setpoint) ==
    IF prev_cmd = 1 /\ new_cmd = 0
    THEN IF temp > setpoint
         THEN Some([off_ts |-> ts, temp_at_off |-> temp,
                    setpoint_at_off |-> setpoint, peak_temp |-> temp])
         ELSE pend
    ELSE IF prev_cmd = 0 /\ new_cmd = 1 THEN None
    ELSE pend

\* lines 352-364: the episode after a switch
SwitchEpisode(prev_cmd, new_cmd, pend, ts, temp, setpoint) ==
    IF prev_cmd = 1 /\ new_cmd = 0
    THEN Some([off_ts |-> ts, temp_at_off |-> temp,
               setpoint_at_off |-> setpoint, peak_temp |-> temp])
    ELSE IF prev_cmd = 0 /\ new_cmd = 1 THEN None
    ELSE pend

\* Variant: the timestamp is renewed on every tick that ends ON
SwitchTsWhileOn(prev_cmd, new_cmd, lsw, ts) ==
    IF prev_cmd # new_cmd \/ new_cmd = 1 THEN ts ELSE lsw

\* lines 352-353
SwitchTs(prev_cmd, new_cmd, lsw, ts) == IF prev_cmd # new_cmd THEN ts ELSE lsw

InitStatus == [kind |-> "init", heating_command |-> 0, temperature |-> 0,
               setpoint |-> 0, hysteresis |-> 0, outdoor_bin |-> "unknown",
               predicted_overshoot |-> 0]

\* History: what the room has read since step last switched it OFF, up to
\* the tick before this one: the highest temperature, and the setpoint and
\* the outdoor temperature of the tick of the switch.  None while the room
\* heats and until its first switch OFF.
SinceOff(r) ==
    IF heating_cmd[r] = 1 THEN None
    ELSE IF tick[r].kind # "step" THEN tick[r].since_off
    ELSE IF tick[r].heating_cmd = 1
         THEN Some([max_temp |-> Val(last_temp[r]),
                    setpoint |-> status[r].setpoint,
                    outdoor |-> tick[r].outdoor])
    ELSE IF tick[r].since_off = None THEN None
    ELSE Some([Val(tick[r].since_off) EXCEPT
                  !.max_temp = Max(@, Val(last_temp[r]))])

\* The history of one tick of room r: the inputs it read and the state of
\* the room when it began; stored is the room's node in learning.json at
\* that time
TickOf(r, kind, t_raw) ==
    [kind |-> kind, ts |-> now, mode |-> mode, outdoor |-> outdoor,
     temp_raw |-> t_raw, setp_raw |-> setp_file[r], hyst_raw |-> hyst_file[r],
     heating_cmd |-> heating_cmd[r], last_switch_ts |-> last_switch_ts[r],
     last_temp |-> last_temp[r], last_ts |-> last_ts[r],
     pending_ov |-> pending_ov[r],
     ema_slope_on |-> ema_slope_on[r], ema_slope_off |-> ema_slope_off[r],
     node |-> IF r \in DOMAIN learning THEN Some(learning[r]) ELSE None,
     since_off |-> SinceOff(r),
     stored |-> IF r \in DOMAIN learning_file THEN Some(learning_file[r]) ELSE None,
     cmd_file |-> cmd_file[r], written |-> TRUE,
     attempts |-> Attempts(None), read |-> NoRead]

\* Variant: a command write that fails leaves the zone switched OFF
WriteCommandFailSafe(file, cmd, written) == IF written THEN cmd ELSE 0

\* _write_outputs, lines 244-247: atomic_write_text replaces the command
\* file or raises and leaves it as it was; the exception is logged
WriteCommand(file, cmd, written) == IF written THEN cmd ELSE file

\* A bin of learning.json whose "overshoot" is JSON null.  The flag stands
\* for the null; the number beside it is never read, because every
\* arithmetic on the null raises TypeError first.
NullBin == [overshoot |-> 0, count |-> 2, null |-> TRUE]

IsNullAt(L, r, key) ==
    /\ r \in DOMAIN L
    /\ key \in DOMAIN L[r].bins
    /\ "null" \in DOMAIN L[r].bins[key]

\* One tick of an enabled room.  step raises where it computes with a null
\* overshoot: in _update_overshoot_model when an episode closes (line 276),
\* in _predicted_overshoot called by the decision of a heating room (line
\* 342) or by the status (line 375).  run() catches and logs the exception
\* (lines 551-552); what step assigned before it stays assigned.
\* interrupted: SIGINT arrives while step is in _write_outputs, before the
\* command file is replaced; KeyboardInterrupt is no Exception, so it
\* passes every handler up to line 570 and run() returns.
\* written: the command write of _write_outputs succeeds.
\* attempts: what reading the temperature file does on each attempt.
StepOn(r, interrupted, written, attempts) ==
    /\ pc = "rooms"
    /\ idx <= Len(rooms)
    /\ rooms[idx] = r
    /\ enabled[r]
    /\  LET t_raw == safe_read_text(attempts)
            temp == safe_read_float(t_raw, DEFAULT_SETPOINT)
            hyst == EffectiveHyst(hyst_file[r], cfg.global_hysteresis)
            ts == now
            slope == SlopePerMin(temp, last_temp[r], last_ts[r], ts)
            dt_sec == IF last_ts[r] # None THEN Max(1, ts - Val(last_ts[r])) ELSE 1
            L0 == LearningNode(learning, r)
            on1 == PhaseEma(ema_slope_on[r], slope, heating_cmd[r] = 1, dt_sec)
            off1 == PhaseEma(ema_slope_off[r], slope, heating_cmd[r] # 1, dt_sec)
            L1 == IF slope = None THEN L0
                  ELSE IF heating_cmd[r] = 1
                       THEN [L0 EXCEPT ![r].ema_slope_on = on1]
                       ELSE [L0 EXCEPT ![r].ema_slope_off = off1]
            bin_key == temp_to_bin_key(outdoor)
            finFault == /\ heating_cmd[r] = 0
                        /\ pending_ov[r] # None
                        /\ Closing(pending_ov[r], last_temp[r], temp, ts)
                        /\ IsNullAt(L1, r, bin_key)
                        /\ L1[r].bins[bin_key].count # 0
            fin == IF finFault
                   THEN [L |-> L1,
                         pend |-> Some([Val(pending_ov[r]) EXCEPT
                                          !.peak_temp = Max(@, temp)])]
                   ELSE IF heating_cmd[r] = 0
                   THEN FinalizePending(L1, r, pending_ov[r], last_temp[r], temp, ts, bin_key)
                   ELSE [L |-> L1, pend |-> pending_ov[r]]
            prev_cmd == heating_cmd[r]
            setpoint == safe_read_float(setp_file[r], DEFAULT_SETPOINT)
            fault == IF finFault THEN "finalize"
                     ELSE IF ~IsNullAt(fin.L, r, bin_key)
                          THEN IF interrupted THEN "interrupt" ELSE "none"
                     ELSE IF mode # "off" /\ prev_cmd = 1 THEN "decide"
                     ELSE "status"
            decided == fault \in {"none", "status", "interrupt"}
            pred_ov == PredictedOvershoot(fin.L, r, bin_key, cfg.tau_minutes)
            new_cmd == Decide(prev_cmd, mode, temp, setpoint, hyst, pred_ov,
                              SecondsSinceSwitch(ts, last_switch_ts[r]),
                              cfg.min_on_seconds, cfg.min_off_seconds)
            L2 == OvershootBin(fin.L, r, bin_key)
        IN  /\ heating_cmd' = [heating_cmd EXCEPT ![r] = IF decided THEN new_cmd ELSE @]
            /\ last_switch_ts' = [last_switch_ts EXCEPT
                                    ![r] = IF decided
                                           THEN SwitchTs(prev_cmd, new_cmd, @, ts)
                                           ELSE @]
            /\ pending_ov' = [pending_ov EXCEPT
                                ![r] = IF decided
                                       THEN SwitchEpisode(prev_cmd, new_cmd, fin.pend,
                                                          ts, temp, setpoint)
                                       ELSE fin.pend]
            /\ ema_slope_on' = [ema_slope_on EXCEPT ![r] = on1]
            /\ ema_slope_off' = [ema_slope_off EXCEPT ![r] = off1]
            /\ learning' = IF fault = "finalize" THEN fin.L ELSE L2
            /\ IF fault = "none"
               THEN /\ status' = [status EXCEPT ![r] =
                            [kind |-> "step", heating_command |-> new_cmd,
                             temperature |-> temp, setpoint |-> setpoint,
                             hysteresis |-> hyst, outdoor_bin |-> bin_key,
                             predicted_overshoot |->
                                 PredictedOvershoot(L2, r, bin_key, cfg.tau_minutes)]]
                    /\ cmd_file' = [cmd_file EXCEPT ![r] = WriteCommand(@, new_cmd, written)]
                    /\ last_temp' = [last_temp EXCEPT ![r] = Some(temp)]
                    /\ last_ts' = [last_ts EXCEPT ![r] = Some(ts)]
                    /\ tick' = [tick EXCEPT ![r] =
                                  [TickOf(r, "step", t_raw)
                                     EXCEPT !.written = written,
                                            !.attempts = attempts,
                                            !.read = _retry_io(attempts)]]
               ELSE /\ UNCHANGED <<status, cmd_file, last_temp, last_ts>>
                    /\ tick' = [tick EXCEPT ![r] =
                                  [TickOf(r, IF fault = "interrupt" THEN "interrupted"
                                             ELSE "fault", t_raw)
                                     EXCEPT !.written = FALSE,
                                            !.attempts = attempts,
                                            !.read = _retry_io(attempts)]]
            /\ pc' = IF fault = "interrupt" THEN "stopped" ELSE pc
            /\ IF fault = "interrupt"
               THEN /\ learning_file' = learning'
                    /\ io' = io \o <<r, "exit_persist">>
               ELSE /\ io' = Append(io, r)
                    /\ UNCHANGED learning_file
    /\ idx' = idx + 1
    /\ UNCHANGED <<now, cycles, mode, outdoor, mode_file, cfgVars, fileVars>>

\* a tick that finds the temperature file in any of the states of the feed
StepAs(r, interrupted, written) ==
    \E content \in feed[r] : StepOn(r, interrupted, written, Attempts(content))

Step(r) == StepAs(r, FALSE, TRUE)

StepInterrupted(r) == StepAs(r, TRUE, TRUE)

\* a tick whose command write fails
StepUnwritten(r) == StepAs(r, FALSE, FALSE)

\* a tick whose read of the temperature file goes any of the given ways
StepReading(r, ways) == \E fn \in ways : StepOn(r, FALSE, TRUE, fn)

\* run(), lines 537-548: a room disabled in rooms.json; written: the
\* command write of _write_outputs succeeds
ForceOffAs(r, written) ==
    /\ pc = "rooms"
    /\ idx <= Len(rooms)
    /\ rooms[idx] = r
    /\ ~enabled[r]
    /\ heating_cmd' = [heating_cmd EXCEPT ![r] = 0]
    /\ last_switch_ts' = [last_switch_ts EXCEPT
                            ![r] = IF heating_cmd[r] # 0 THEN now ELSE @]
    /\ pending_ov' = [pending_ov EXCEPT ![r] = IF heating_cmd[r] # 0 THEN None ELSE @]
    /\ status' = [status EXCEPT ![r] = [InitStatus EXCEPT !.kind = "disabled"]]
    /\ cmd_file' = [cmd_file EXCEPT ![r] = WriteCommand(@, 0, written)]
    /\ tick' = [tick EXCEPT ![r] =
                  [TickOf(r, "forced", None) EXCEPT !.written = written]]
    /\ io' = Append(io, r)
    /\ idx' = idx + 1
    /\ UNCHANGED <<now, cycles, pc, mode, outdoor, mode_file, cfgVars, fileVars,
                   last_temp, last_ts, ema_slope_on, ema_slope_off, learning,
                   learning_file>>

\* Variant: the forced tick also does the bookkeeping that ends step
ForceOffBookkeeping(r) ==
    /\ pc = "rooms"
    /\ idx <= Len(rooms)
    /\ rooms[idx] = r
    /\ ~enabled[r]
    /\ heating_cmd' = [heating_cmd EXCEPT ![r] = 0]
    /\ last_switch_ts' = [last_switch_ts EXCEPT
                            ![r] = IF heating_cmd[r] # 0 THEN now ELSE @]
    /\ pending_ov' = [pending_ov EXCEPT ![r] = IF heating_cmd[r] # 0 THEN None ELSE @]
    /\ status' = [status EXCEPT ![r] = [InitStatus EXCEPT !.kind = "disabled"]]
    /\ cmd_file' = [cmd_file EXCEPT ![r] = 0]
    /\ tick' = [tick EXCEPT ![r] = TickOf(r, "forced", None)]
    /\ io' = Append(io, r)
    /\ idx' = idx + 1
    /\ last_temp' = [last_temp EXCEPT ![r] = Some(DEFAULT_SETPOINT)]
    /\ last_ts' = [last_ts EXCEPT ![r] = Some(now)]
    /\ UNCHANGED <<now, cycles, pc, mode, outdoor, mode_file, cfgVars, fileVars,
                   ema_slope_on, ema_slope_off, learning, learning_file>>

\* the forced tick of a disabled room, its writes succeeding
ForceOff(r) == ForceOffAs(r, TRUE)

\* a forced tick whose command write fails
ForceOffUnwritten(r) == ForceOffAs(r, FALSE)

-----------------------------------------------------------------------------
(* ThermostatApp.run *)

Lower(s) == CASE s = "OFF" -> "off"
              [] s = "Auto" -> "auto"
              [] OTHER -> s

\* _read_mode
ReadMode(raw) ==
    LET m == Lower(IF raw = None THEN "auto" ELSE Val(raw))
    IN  IF m \notin {"auto", "heat", "on"} THEN "off" ELSE "auto"

ModeInputs == {Some("auto"), Some("off")}

OutdoorInputs == {Some(5000)}

Dts == {60, 900}

\* Variant: the reload also takes the enabled flags of rooms.json
ReloadRoomMap(names, flags, file) ==
    [friendly_name |-> [r \in DOMAIN names |-> file[r].name],
     enabled |-> [r \in DOMAIN flags |-> file[r].enabled]]

\* _reload_room_names_if_changed: every registered room takes its name
\* from rooms.json; self.rooms_map, which holds the enabled flags, is not
\* assigned
ReloadRoomNames(names, flags, file) ==
    [friendly_name |-> [r \in DOMAIN names |-> file[r].name],
     enabled |-> flags]

\* lines 523-527: the names are reloaded, then the global inputs of the
\* cycle are read, the two files holding any of the given contents
ReadGlobalsFrom(outdoors, modes) ==
    /\ pc = "read"
    /\ friendly_name' = ReloadRoomNames(friendly_name, enabled, rooms_file).friendly_name
    /\ enabled' = ReloadRoomNames(friendly_name, enabled, rooms_file).enabled
    /\ \E o \in outdoors, m \in modes :
          /\ outdoor' = o
          /\ mode_file' = m
          /\ mode' = ReadMode(m)
    /\ pc' = "rooms"
    /\ idx' = 1
    /\ io' = <<>>
    /\ UNCHANGED <<now, cycles, cfg, rooms, fileVars, roomVars, learning_file>>

ReadGlobals == ReadGlobalsFrom(OutdoorInputs, ModeInputs)

\* lines 554-560: after the for-loop the learning store is saved, then the
\* aggregated status is written; each write succeeds or fails after its
\* retries (results), and each failure is caught and logged
EndOfRoomsWith(results) ==
    /\ pc = "rooms"
    /\ idx > Len(rooms)
    /\ \E saved \in results, written \in results :
          /\ learning_file' = IF saved THEN learning ELSE learning_file
          /\ io' = io \o <<IF saved THEN "persist" ELSE "persist_failed",
                           IF written THEN "status_all" ELSE "status_all_failed">>
    /\ pc' = "sleep"
    /\ UNCHANGED <<now, cycles, idx, mode, outdoor, mode_file, cfgVars, fileVars, roomVars>>

EndOfRooms == EndOfRoomsWith({TRUE})

\* Variant: the error of the cycle is not handled and run() ends
CycleFaultFatal ==
    /\ pc = "read"
    /\ pc' = "crashed"
    /\ io' = <<"loop_error">>
    /\ UNCHANGED <<now, cycles, idx, mode, outdoor, mode_file, cfgVars, fileVars,
                   roomVars, learning_file>>

\* lines 523 and 563-567: _reload_room_names_if_changed raises on a
\* rooms.json that is JSON of the wrong shape (for one, {"rooms": null});
\* the handler of the cycle logs the error and the cycle ends there
CycleFault ==
    /\ pc = "read"
    /\ pc' = "sleep"
    /\ io' = <<"loop_error">>
    /\ UNCHANGED <<now, cycles, idx, mode, outdoor, mode_file, cfgVars, fileVars,
                   roomVars, learning_file>>

\* line 569: sleep, then the next cycle; the run is followed for n cycles
\* and the sleep lasts one of dts seconds
SleepWith(n, dts) ==
    /\ pc = "sleep"
    /\ cycles + 1 < n
    /\ \E dt \in dts : now' = now + dt
    /\ cycles' = cycles + 1
    /\ pc' = "read"
    /\ UNCHANGED <<idx, mode, outdoor, mode_file, cfgVars, fileVars, roomVars, diskVars>>

Sleep == SleepWith(MaxCycles, Dts)

-----------------------------------------------------------------------------
(* Installations the controller is started on *)

Temps == {20500, 20700, 21000, 21300, 21600}

DefaultCfg == [global_hysteresis |-> DEFAULT_HYSTERESIS,
               min_on_seconds |-> DEFAULT_MIN_ON_SECONDS,
               min_off_seconds |-> DEFAULT_MIN_OFF_SECONDS,
               tau_minutes |-> DEFAULT_TAU_MIN]

EmptyLearning == [r \in {} |-> NewNode]

\* a learning.json left by an earlier run
EarlierLearning ==
    "room1" :> [bins |-> ("0..10" :> [overshoot |-> 400, count |-> 2]),
                ema_slope_on |-> Some(500), ema_slope_off |-> Some(-100)]

\* the same, with what room2 learned before it was disabled
BothLearned ==
    EarlierLearning @@
    ("room2" :> [bins |-> ("0..10" :> [overshoot |-> 250, count |-> 1]),
                 ema_slope_on |-> Some(300), ema_slope_off |-> None])

\* a fresh installation: every file holds its default
Fresh ==
    [cfg |-> DefaultCfg, rooms |-> <<"room1">>, disabled |-> {},
     setp |-> Some(DEFAULT_SETPOINT), hyst |-> Some(DEFAULT_HYSTERESIS),
     learning |-> EmptyLearning, feed |-> {Some(t) : t \in Temps}]

\* no switch holds, no hysteresis, and a model learned earlier
Tuned ==
    [cfg |-> [DefaultCfg EXCEPT !.global_hysteresis = 0, !.min_on_seconds = 0,
                                !.min_off_seconds = 0, !.tau_minutes = 3],
     rooms |-> <<"room1">>, disabled |-> {},
     setp |-> Some(DEFAULT_SETPOINT), hyst |-> Some(0),
     learning |-> EarlierLearning, feed |-> {Some(t) : t \in Temps}]

\* a second room, disabled in rooms.json
TwoRooms(L) ==
    [cfg |-> DefaultCfg, rooms |-> <<"room1", "room2">>, disabled |-> {"room2"},
     setp |-> Some(DEFAULT_SETPOINT), hyst |-> Some(DEFAULT_HYSTERESIS),
     learning |-> L, feed |-> {Some(t) : t \in Temps}]

Installations == {Fresh, Tuned, TwoRooms(BothLearned)}

RoomSet(seq) == {seq[i] : i \in 1..Len(seq)}

\* the name _ensure_rooms_map gives the idx-th room
DefaultName(seq, r) ==
    LET i == CHOOSE k \in 1..Len(seq) : seq[k] = r
    IN  IF i = 1 THEN "Szoba 1" ELSE "Szoba 2"

\* _ensure_default_files, lines 214-215: the command file is created with
\* "0" where there is none; one left by an earlier run is kept
CmdLeft(inst) == IF "cmd" \in DOMAIN inst THEN inst.cmd ELSE 0

\* now_ts() when run() starts
StartTs == 1000000

InitOn(inst) ==
    /\ now = StartTs
    /\ cycles = 0
    /\ pc = "read"
    /\ idx = 1
    /\ mode = "auto"
    /\ mode_file = Some("auto")
    /\ outdoor = None
    /\ cfg = inst.cfg
    /\ rooms = inst.rooms
    /\ enabled = [r \in RoomSet(inst.rooms) |-> r \notin inst.disabled]
    /\ friendly_name = [r \in RoomSet(inst.rooms) |-> DefaultName(inst.rooms, r)]
    /\ rooms_file = [r \in RoomSet(inst.rooms) |->
                       [name |-> DefaultName(inst.rooms, r),
                        enabled |-> r \notin inst.disabled]]
    /\ heating_cmd = [r \in RoomSet(inst.rooms) |-> 0]
    /\ last_switch_ts = [r \in RoomSet(inst.rooms) |-> 0]
    /\ last_temp = [r \in RoomSet(inst.rooms) |-> None]
    /\ last_ts = [r \in RoomSet(inst.rooms) |-> None]
    /\ ema_slope_on = [r \in RoomSet(inst.rooms) |-> None]
    /\ ema_slope_off = [r \in RoomSet(inst.rooms) |-> None]
    /\ pending_ov = [r \in RoomSet(inst.rooms) |-> None]
    /\ learning = inst.learning
    /\ tick = [r \in RoomSet(inst.rooms) |->
                 [kind |-> "none", ts |-> StartTs, mode |-> "auto", outdoor |-> None,
                  temp_raw |-> None, setp_raw |-> inst.setp, hyst_raw |-> inst.hyst,
                  heating_cmd |-> 0, last_switch_ts |-> 0,
                  last_temp |-> None, last_ts |-> None, pending_ov |-> None,
                  ema_slope_on |-> None, ema_slope_off |-> None,
                  node |-> IF r \in DOMAIN inst.learning
                           THEN Some(inst.learning[r]) ELSE None,
                  since_off |-> None,
                  stored |-> IF r \in DOMAIN inst.learning
                             THEN Some(inst.learning[r]) ELSE None,
                  cmd_file |-> CmdLeft(inst), written |-> TRUE,
                  attempts |-> Attempts(None), read |-> NoRead]]
    /\ setp_file = [r \in RoomSet(inst.rooms) |-> inst.setp]
    /\ hyst_file = [r \in RoomSet(inst.rooms) |-> inst.hyst]
    /\ feed = [r \in RoomSet(inst.rooms) |-> inst.feed]
    /\ status = [r \in RoomSet(inst.rooms) |-> InitStatus]
    /\ cmd_file = [r \in RoomSet(inst.rooms) |-> CmdLeft(inst)]
    /\ learning_file = inst.learning
    /\ io = <<>>

Init == \E inst \in Installations : InitOn(inst)

Next ==
    \/ ReadGlobals
    \/ \E r \in RoomSet(rooms) : Step(r)
    \/ \E r \in RoomSet(rooms) : ForceOff(r)
    \/ EndOfRooms
    \/ Sleep

Spec == Init /\ [][Next]_vars

-----------------------------------------------------------------------------------------------------------------------------------------------------
(* The overshoot model on its own: record_overshoot and the predictor's    *)
(* read called directly, in any order, with any observed value             *)

MaxCount == 2

RecordInputs == {-500, 300, 700}

RecordKeys == {"0..10", "unknown"}

modelFrame == <<now, cycles, pc, idx, mode, outdoor, mode_file, cfgVars, fileVars,
                heating_cmd, last_switch_ts, last_temp, last_ts, ema_slope_on,
                ema_slope_off, pending_ov, tick, status, cmd_file, diskVars>>

RecordOvershoot(r, key, observed) ==
    /\ OvershootBin(learning, r, key)[r].bins[key].count < MaxCount
    /\ learning' = UpdateOvershootModel(learning, r, key, observed)
    /\ UNCHANGED modelFrame

PredictorRead(r, key) ==
    /\ learning' = OvershootBin(learning, r, key)
    /\ UNCHANGED modelFrame

NextRecord ==
    \/ \E r \in RoomSet(rooms), key \in RecordKeys, observed \in RecordInputs :
          RecordOvershoot(r, key, observed)
    \/ \E r \in RoomSet(rooms), key \in RecordKeys : PredictorRead(r, key)

SpecRecord == Init /\ [][NextRecord]_vars

-----------------------------------------------------------------------------
(* The binner under any outdoor reading: one room at a steady temperature, *)
(* the outdoor file holding a value on, next to or far from every edge     *)

BinnerReadings == {-45000, -30001, -30000, -10001, -10000, -1, 0, 5000, 9999,
                   10000, 19999, 20000, 34999, 35000, 59999, 60000, 75000}

BinnerInputs == {None} \cup {Some(t) : t \in BinnerReadings}

InitBinner == InitOn([Fresh EXCEPT !.feed = {Some(DEFAULT_SETPOINT)}])

NextBinner ==
    \/ ReadGlobalsFrom(BinnerInputs, {Some("auto")})
    \/ \E r \in RoomSet(rooms) : Step(r)
    \/ EndOfRooms
    \/ Sleep

SpecBinner == InitBinner /\ [][NextBinner]_vars

-----------------------------------------------------------------------------
(* Inputs that are absent, unreadable or unrecognised: a room set to 20    *)
(* degC whose hysteresis.txt does not parse, a global hysteresis of 0.1,   *)
(* a sensor file and a mode file that may be missing at any read           *)

LowSetpoint == 20000

LowHysteresis == 100

Unattended ==
    [cfg |-> [DefaultCfg EXCEPT !.global_hysteresis = LowHysteresis],
     rooms |-> <<"room1">>, disabled |-> {},
     setp |-> Some(LowSetpoint), hyst |-> None,
     learning |-> EmptyLearning,
     feed |-> {None, Some(19500), Some(20400)}]

\* mode.txt: a known word, an unknown word, or no readable file
AnyModeInputs == {Some("auto"), Some("off"), Some("eco"), None}

InitInputs == InitOn(Unattended)

NextInputs ==
    \/ ReadGlobalsFrom(OutdoorInputs, AnyModeInputs)
    \/ \E r \in RoomSet(rooms) : Step(r)
    \/ EndOfRooms
    \/ Sleep

SpecInputs == InitInputs /\ [][NextInputs]_vars

-----------------------------------------------------------------------------
(* A learning.json damaged outside the controller: room1's bin for 0..10   *)
(* degC outdoors holds a null overshoot.  Two enabled rooms.               *)

Damaged ==
    [cfg |-> DefaultCfg, rooms |-> <<"room1", "room2">>, disabled |-> {},
     setp |-> Some(DEFAULT_SETPOINT), hyst |-> Some(DEFAULT_HYSTERESIS),
     learning |-> ("room1" :> [bins |-> ("0..10" :> NullBin),
                               ema_slope_on |-> None, ema_slope_off |-> None]),
     feed |-> {Some(20500), Some(21600)}]

InitFault == InitOn(Damaged)

NextFault ==
    \/ ReadGlobals
    \/ \E r \in RoomSet(rooms) : Step(r)
    \/ EndOfRooms
    \/ Sleep

SpecFault == InitFault /\ [][NextFault]_vars

-----------------------------------------------------------------------------
(* One room followed through a whole episode, while the setpoint is        *)
(* changed from the GUI and the weather changes                            *)

EpisodeCycles == 4

\* the setpoints typed into the GUI, in 0.001 degC
SetpointEntries == {19996}

\* f"{sp:.2f}": the number rounded to two decimals
FormatCenti(v) == ((v + 5) \div 10) * 10

\* gui.py, save of a room panel: setpoint.txt is replaced by the number in
\* the entry, written with two decimals
SaveSetpoint(r) ==
    /\ pc = "sleep"
    /\ \E sp \in SetpointEntries :
          /\ setp_file[r] # Some(FormatCenti(sp))
          /\ setp_file' = [setp_file EXCEPT ![r] = Some(FormatCenti(sp))]
    /\ UNCHANGED <<now, cycles, pc, idx, mode, outdoor, mode_file, cfgVars,
                   hyst_file, feed, rooms_file, roomVars, diskVars>>

\* outdoor_temperature.txt on a cold and on a mild day
WeatherInputs == {Some(5000), Some(15000)}

\* no switch holds, no hysteresis, nothing learned yet
Watched ==
    [cfg |-> Tuned.cfg, rooms |-> <<"room1">>, disabled |-> {},
     setp |-> Some(DEFAULT_SETPOINT), hyst |-> Some(0),
     learning |-> EmptyLearning,
     feed |-> {Some(20500), Some(21300), Some(21500), Some(21600)}]

InitEpisode == InitOn(Watched)

NextEpisode ==
    \/ ReadGlobalsFrom(WeatherInputs, {Some("auto")})
    \/ \E r \in RoomSet(rooms) : Step(r)
    \/ EndOfRooms
    \/ \E r \in RoomSet(rooms) : SaveSetpoint(r)
    \/ SleepWith(EpisodeCycles, {60})

SpecEpisode == InitEpisode /\ [][NextEpisode]_vars

-----------------------------------------------------------------------------
(* Hysteresis settings of any sign: hysteresis.txt of the room and         *)
(* global_hysteresis of controller_config.json, neither checked on entry   *)

HystOverrides == {-500, 200, 500}

HystGlobals == {-200, 300}

HystTemps == {20500, 20700, 20800, 21000, 21300, 21500}

Tweaked(override, global) ==
    [cfg |-> [DefaultCfg EXCEPT !.global_hysteresis = global],
     rooms |-> <<"room1">>, disabled |-> {},
     setp |-> Some(DEFAULT_SETPOINT), hyst |-> Some(override),
     learning |-> EmptyLearning, feed |-> {Some(t) : t \in HystTemps}]

InitHyst == \E ov \in HystOverrides, g \in HystGlobals : InitOn(Tweaked(ov, g))

NextHyst ==
    \/ ReadGlobalsFrom(OutdoorInputs, {Some("auto")})
    \/ \E r \in RoomSet(rooms) : Step(r)
    \/ EndOfRooms
    \/ Sleep

SpecHyst == InitHyst /\ [][NextHyst]_vars

-----------------------------------------------------------------------------
(* A learning.json edited by hand: a negative estimate and a negative      *)
(* heating slope, which the controller loads as they are                   *)

Edited ==
    [cfg |-> Tuned.cfg, rooms |-> <<"room1">>, disabled |-> {},
     setp |-> Some(DEFAULT_SETPOINT), hyst |-> Some(0),
     learning |-> ("room1" :> [bins |-> ("0..10" :> [overshoot |-> -200, count |-> 3]),
                               ema_slope_on |-> Some(-100), ema_slope_off |-> None]),
     feed |-> {Some(20500), Some(20700), Some(21000), Some(21300)}]

InitEdited == InitOn(Edited)

NextEdited ==
    \/ ReadGlobals
    \/ \E r \in RoomSet(rooms) : Step(r)
    \/ EndOfRooms
    \/ Sleep

SpecEdited == InitEdited /\ [][NextEdited]_vars

-----------------------------------------------------------------------------
(* The supervisor GUI resets the learning data of a room while the         *)
(* controller runs                                                         *)

\* gui.py, FS.reset_learning_for_room: learning.json is loaded, the room's
\* node replaced by empty bins and unset slopes, and the file saved.  The
\* GUI is another process; here it acts while the controller sleeps.
ResetLearning(r) ==
    /\ pc = "sleep"
    /\ ~(r \in DOMAIN learning_file /\ learning_file[r] = NewNode)
    /\ learning_file' = [x \in DOMAIN learning_file \cup {r} |->
                            IF x = r THEN NewNode ELSE learning_file[x]]
    /\ UNCHANGED <<now, cycles, pc, idx, mode, outdoor, mode_file, cfgVars,
                   fileVars, roomVars, io>>

InitReset == InitOn(Tuned)

NextReset ==
    \/ ReadGlobalsFrom(OutdoorInputs, {Some("auto")})
    \/ \E r \in RoomSet(rooms) : Step(r)
    \/ EndOfRooms
    \/ \E r \in RoomSet(rooms) : ResetLearning(r)
    \/ Sleep

SpecReset == InitReset /\ [][NextReset]_vars

-----------------------------------------------------------------------------
(* The supervisor GUI renames, disables and enables rooms in rooms.json    *)
(* while the controller runs                                               *)

RoomNames == {"Szoba 1", "Nappali"}

\* gui.py, save of a room row: the room's name and enabled flag in
\* rooms.json are replaced by those of the row, when either differs
SaveRoom(r) ==
    /\ pc = "sleep"
    /\ \E n \in RoomNames, e \in BOOLEAN :
          /\ rooms_file[r] # [name |-> n, enabled |-> e]
          /\ rooms_file' = [rooms_file EXCEPT ![r] = [name |-> n, enabled |-> e]]
    /\ UNCHANGED <<now, cycles, pc, idx, mode, outdoor, mode_file, cfgVars,
                   setp_file, hyst_file, feed, roomVars, diskVars>>

\* room1 enabled and room2 disabled when the controller starts
Supervised ==
    [TwoRooms(EmptyLearning) EXCEPT !.feed = {Some(20500), Some(21300)}]

InitMap == InitOn(Supervised)

NextMap ==
    \/ ReadGlobalsFrom(OutdoorInputs, {Some("auto")})
    \/ \E r \in RoomSet(rooms) : Step(r)
    \/ \E r \in RoomSet(rooms) : ForceOff(r)
    \/ EndOfRooms
    \/ \E r \in RoomSet(rooms) : SaveRoom(r)
    \/ SleepWith(MaxCycles, {900})

SpecMap == InitMap /\ [][NextMap]_vars

-----------------------------------------------------------------------------
(* Command writes that fail: the share holding the command files refuses   *)
(* a write now and then.  The controller was restarted while the command   *)
(* files said ON.                                                          *)

Restarted ==
    [cfg |-> DefaultCfg, rooms |-> <<"room1", "room2">>, disabled |-> {"room2"},
     setp |-> Some(DEFAULT_SETPOINT), hyst |-> Some(DEFAULT_HYSTERESIS),
     learning |-> EmptyLearning, feed |-> {Some(20500), Some(21300)},
     cmd |-> 1]

InitWrite == InitOn(Restarted)

NextWrite ==
    \/ ReadGlobalsFrom(OutdoorInputs, {Some("auto")})
    \/ \E r \in RoomSet(rooms) : Step(r)
    \/ \E r \in RoomSet(rooms) : StepUnwritten(r)
    \/ \E r \in RoomSet(rooms) : ForceOff(r)
    \/ \E r \in RoomSet(rooms) : ForceOffUnwritten(r)
    \/ EndOfRooms
    \/ SleepWith(MaxCycles, {900})

SpecWrite == InitWrite /\ [][NextWrite]_vars

-----------------------------------------------------------------------------
(* Installations that differ in min_off_seconds, from no hold to one       *)
(* longer than the clock has run                                            *)

MinOffInputs == {0, DEFAULT_MIN_OFF_SECONDS, 7200, 2 * StartTs}

Held(min_off_s) ==
    [Fresh EXCEPT !.cfg.min_off_seconds = min_off_s,
                  !.feed = {Some(20500), Some(20700), Some(21300)}]

InitHold == \E min_off_s \in MinOffInputs : InitOn(Held(min_off_s))

NextHold ==
    \/ ReadGlobalsFrom(OutdoorInputs, ModeInputs)
    \/ \E r \in RoomSet(rooms) : Step(r)
    \/ EndOfRooms
    \/ Sleep

SpecHold == InitHold /\ [][NextHold]_vars

-----------------------------------------------------------------------------
(* A share that locks or loses the temperature file.  The first k attempts *)
(* to read it raise, EACCES or ENOENT, the last of them perhaps not what    *)
(* the others raise; attempt k + 1 returns a reading; what the attempts     *)
(* after that would do is another reading or EACCES.                        *)

Way(k, errno, last_errno, v, later) ==
    [i \in 1..IO_RETRIES |-> IF i < k THEN Raises(errno)
                             ELSE IF i = k THEN Raises(last_errno)
                             ELSE IF i = k + 1 THEN Returns(v)
                             ELSE later]

ReadWays ==
    {Way(k, errno, last_errno, v, later) :
        k \in 0..IO_RETRIES, errno \in {13, 2}, last_errno \in {13, 2},
        v \in {20500}, later \in {Returns(21300), Raises(13)}}

InitRetry == InitOn(Fresh)

NextRetry ==
    \/ ReadGlobalsFrom({Some(5000)}, {Some("auto")})
    \/ \E r \in RoomSet(rooms) : StepReading(r, ReadWays)
    \/ EndOfRooms
    \/ SleepWith(MaxCycles, {900})

SpecRetry == InitRetry /\ [][NextRetry]_vars

-----------------------------------------------------------------------------
(* The stop signal.  run() has no stop flag: it ends on KeyboardInterrupt  *)
(* (lines 570-575), which the interpreter raises in the main thread        *)
(* wherever it is when SIGINT arrives.                                     *)

\* SIGINT between two steps of the model: before the global inputs are
\* read, between two rooms of the for-loop, or in time.sleep
\* lines 570-575: the learning store is saved once more, a failure logged
InterruptWith(results) ==
    /\ pc \in {"read", "rooms", "sleep"}
    /\ pc' = "stopped"
    /\ \E saved \in results :
          /\ learning_file' = IF saved THEN learning ELSE learning_file
          /\ io' = Append(io, IF saved THEN "exit_persist" ELSE "exit_persist_failed")
    /\ UNCHANGED <<now, cycles, idx, mode, outdoor, mode_file, cfgVars, fileVars, roomVars>>

Interrupt == InterruptWith({TRUE})

NextStop ==
    \/ Next
    \/ Interrupt
    \/ \E r \in RoomSet(rooms) : StepInterrupted(r)

SpecStop == Init /\ [][NextStop]_vars

-----------------------------------------------------------------------------
(* The loop under every fault at once: the damaged learning store, a       *)
(* rooms.json of the wrong shape, a mode file and a disk that may fail at  *)
(* any access, and SIGINT at any time.  Every statement of run() returns:  *)
(* the retries are bounded and the sleeps finite, so a cycle that can go   *)
(* on does go on.                                                          *)

InitLoop == InitOn([Damaged EXCEPT !.feed = {Some(20500)}])

NextCycle ==
    \/ ReadGlobalsFrom(OutdoorInputs, {Some("auto"), Some("off"), None})
    \/ CycleFault
    \/ \E r \in RoomSet(rooms) : Step(r)
    \/ EndOfRoomsWith(BOOLEAN)
    \/ Sleep

NextLoop ==
    \/ NextCycle
    \/ InterruptWith(BOOLEAN)
    \/ \E r \in RoomSet(rooms) : StepInterrupted(r)

SpecLoop == InitLoop /\ [][NextLoop]_vars /\ WF_vars(NextCycle)

-----
(* What the properties below speak of *)

Stepped(r) == tick[r].kind = "step"

\* temperature, setpoint and effective hysteresis the last tick decided with
T(r) == Val(last_temp[r])
SP(r) == status[r].setpoint
H(r) == status[r].hysteresis

\* seconds between the last tick and the switch before it
Elapsed(r) == tick[r].ts - tick[r].last_switch_ts

\* learned estimate and count of a bin; a bin never observed reads 0, 0
EstIn(node, k) == IF node # None /\ k \in DOMAIN Val(node).bins
                  THEN Val(node).bins[k].overshoot ELSE 0
CntIn(node, k) == IF node # None /\ k \in DOMAIN Val(node).bins
                  THEN Val(node).bins[k].count ELSE 0
NodeNow(r) == IF r \in DOMAIN learning THEN Some(learning[r]) ELSE None
Est(r, k) == EstIn(NodeNow(r), k)
Cnt(r, k) == CntIn(NodeNow(r), k)

\* section 4.3 of the design: max(learned, slope * tau if slope > 0 else 0)
SpecPredicted(r, k) ==
    LET s == IF r \in DOMAIN learning THEN learning[r].ema_slope_on ELSE None
        byslope == IF s # None /\ Val(s) > 0 THEN Val(s) * cfg.tau_minutes ELSE 0
    IN  IF Est(r, k) >= byslope THEN Est(r, k) ELSE byslope

\* section 4.5 of the design: the episode open before the last tick closes
\* on it
SpecCloses(r) ==
    \/ tick[r].last_temp # None /\ T(r) <= Val(tick[r].last_temp) - 10
    \/ tick[r].ts - Val(tick[r].pending_ov).off_ts >= 15 * 60

-----------------------------------------------------------------------------
(* C1: after a tick whose mode was off, the zone's command is OFF, whatever *)
(* its previous command, temperature, setpoint or min-on lock.              *)
C1_ModeOffForcesOff ==
    \A r \in RoomSet(rooms) :
        (tick[r].kind # "none" /\ tick[r].mode = "off") => heating_cmd[r] = 0

\* a zone that was ON, inside its min-on hold and cold is switched OFF by mode off
C1_Witness ==
    \E r \in RoomSet(rooms) :
        /\ Stepped(r) /\ tick[r].mode = "off"
        /\ tick[r].heating_cmd = 1 /\ heating_cmd[r] = 0
        /\ Elapsed(r) < cfg.min_on_seconds
        /\ T(r) <= SP(r) - H(r)

-----------------------------------------------------------------------------
(* C2 *)

Switched(r) == tick[r].kind # "none" /\ tick[r].heating_cmd # heating_cmd[r]

SafetyCut(r) ==
    /\ tick[r].kind = "step"
    /\ tick[r].heating_cmd = 1 /\ heating_cmd[r] = 0
    /\ T(r) >= SP(r) + H(r)

Hold(r) == IF heating_cmd[r] = 1 THEN cfg.min_off_seconds ELSE cfg.min_on_seconds

\* C2 as stated: every switch that follows an earlier switch and is not a
\* safety cutoff comes at least the hold (min_off before ON, min_on before
\* OFF) after the earlier switch.
C2_HoldExceptSafety ==
    \A r \in RoomSet(rooms) :
        (Switched(r) /\ tick[r].last_switch_ts > 0 /\ ~SafetyCut(r))
            => Elapsed(r) >= Hold(r)

\* C2, amended: every switch that follows an earlier switch and is neither a
\* safety cutoff nor made on a tick whose mode is off comes at least the
\* hold after the earlier switch.
C2_HoldExceptSafetyAndModeOff ==
    \A r \in RoomSet(rooms) :
        (Switched(r) /\ tick[r].last_switch_ts > 0 /\ ~SafetyCut(r)
                     /\ tick[r].mode # "off")
            => Elapsed(r) >= Hold(r)

\* an anticipatory switch OFF after a switch ON, with a hold configured
C2_Witness ==
    \E r \in RoomSet(rooms) :
        /\ Switched(r) /\ tick[r].last_switch_ts > 0 /\ ~SafetyCut(r)
        /\ tick[r].mode # "off"
        /\ heating_cmd[r] = 0
        /\ cfg.min_on_seconds > 0

-----------------------------------------------------------------------------
(* C3: a tick of an enabled zone with temperature >= setpoint + effective   *)
(* hysteresis leaves the command OFF, also inside the min-on hold.          *)
C3_SafetyCutoff ==
    \A r \in RoomSet(rooms) :
        (Stepped(r) /\ T(r) >= SP(r) + H(r)) => heating_cmd[r] = 0

\* the cutoff switches OFF a zone that is ON in auto mode inside its hold
C3_Witness ==
    \E r \in RoomSet(rooms) :
        /\ Stepped(r) /\ tick[r].mode = "auto"
        /\ tick[r].heating_cmd = 1 /\ heating_cmd[r] = 0
        /\ T(r) >= SP(r) + H(r)
        /\ Elapsed(r) < cfg.min_on_seconds

-----------------------------------------------------------------------------
(* C4: every overshoot estimate of every (zone, bin) is >= 0, after any     *)
(* sequence of ticks and of record_overshoot calls with any observed value. *)
C4_EstimateNonNegative ==
    \A r \in DOMAIN learning :
        \A k \in DOMAIN learning[r].bins : learning[r].bins[k].overshoot >= 0

\* 700 recorded into a fresh bin, then -500: 0.8 * 700 + 0.2 * 0 = 560
\* (no other two of the observed values give 560)
C4_Witness ==
    \E r \in DOMAIN learning :
        /\ "0..10" \in DOMAIN learning[r].bins
        /\ learning[r].bins["0..10"] = [overshoot |-> 560, count |-> 2]

-----------------------------------------------------------------------------
(* C6 *)

\* the last tick switched the zone ON with an episode open at the switch
DiscardedOnSwitch(r) ==
    /\ Stepped(r)
    /\ tick[r].heating_cmd = 0 /\ heating_cmd[r] = 1
    /\ tick[r].pending_ov # None
    /\ ~SpecCloses(r)

\* C6: a switch OFF->ON made while an episode is still open discards the
\* episode and leaves estimate and count of every bin of the zone as they
\* were before the tick.
C6_DiscardNotRecorded ==
    \A r \in RoomSet(rooms) :
        DiscardedOnSwitch(r) =>
            /\ pending_ov[r] = None
            /\ \A k \in BinKeys :
                  /\ Est(r, k) = EstIn(tick[r].node, k)
                  /\ Cnt(r, k) = CntIn(tick[r].node, k)

\* an open episode has been discarded by a switch ON
C6_Witness == \E r \in RoomSet(rooms) : DiscardedOnSwitch(r)

-----------------------------------------------------------------------------
(* C7 *)

\* the last tick opened an episode
OpenedOnTick(r) ==
    /\ Stepped(r)
    /\ pending_ov[r] # None
    /\ Val(pending_ov[r]).off_ts = tick[r].ts

\* the bins the last tick recorded an observation into
RecordedBins(r) == {k \in BinKeys : Cnt(r, k) # CntIn(tick[r].node, k)}

\* C7: an episode is opened only when none is open (there is one slot per
\* zone), and a tick folds into the model at most one observation, that of
\* the episode open before the tick, which is gone after it.
C7_EpisodeClosesOnce ==
    \A r \in RoomSet(rooms) :
        /\ OpenedOnTick(r) => tick[r].pending_ov = None
        /\ RecordedBins(r) # {} =>
              /\ tick[r].pending_ov # None
              /\ pending_ov[r] = None
              /\ Cardinality(RecordedBins(r)) = 1
              /\ \A k \in RecordedBins(r) : Cnt(r, k) = CntIn(tick[r].node, k) + 1

\* an episode has been closed and folded into the model
C7_Witness ==
    \E r \in RoomSet(rooms) :
        /\ RecordedBins(r) # {}
        /\ tick[r].pending_ov # None
        /\ pending_ov[r] = None

-----------------------------------------------------------------------------
(* C8 *)

OffHoldOver(r) == tick[r].last_switch_ts = 0 \/ Elapsed(r) >= cfg.min_off_seconds

\* C8 as stated: a tick of an enabled zone that is OFF switches it ON iff
\* mode # off, temperature <= setpoint - hysteresis and the min-off hold is
\* over, for every effective hysteresis >= 0.
C8_SwitchOnIff ==
    \A r \in RoomSet(rooms) :
        (Stepped(r) /\ tick[r].heating_cmd = 0) =>
            (heating_cmd[r] = 1 <=>
                /\ tick[r].mode # "off"
                /\ T(r) <= SP(r) - H(r)
                /\ OffHoldOver(r))

\* C8, amended: ... iff mode # off, temperature <= setpoint - hysteresis,
\* temperature < setpoint + hysteresis and the min-off hold is over.
C8_SwitchOnIffBelowCutoff ==
    \A r \in RoomSet(rooms) :
        (Stepped(r) /\ tick[r].heating_cmd = 0) =>
            (heating_cmd[r] = 1 <=>
                /\ tick[r].mode # "off"
                /\ T(r) <= SP(r) - H(r)
                /\ T(r) < SP(r) + H(r)
                /\ OffHoldOver(r))

\* a switch ON exactly at setpoint - hysteresis, after an earlier switch
C8_Witness ==
    \E r \in RoomSet(rooms) :
        /\ Stepped(r) /\ tick[r].heating_cmd = 0 /\ heating_cmd[r] = 1
        /\ H(r) > 0 /\ T(r) = SP(r) - H(r)
        /\ tick[r].last_switch_ts > 0

-----------------------------------------------------------------------------
(* C9: a tick with mode # off of an enabled zone that is ON, below the      *)
(* safety cutoff, switches it OFF iff temperature >= min(setpoint -         *)
(* predicted overshoot, setpoint) and the min-on hold is over.              *)
C9_SwitchOffIff ==
    \A r \in RoomSet(rooms) :
        (/\ Stepped(r) /\ tick[r].mode # "off"
         /\ tick[r].heating_cmd = 1
         /\ T(r) < SP(r) + H(r)) =>
            (heating_cmd[r] = 0 <=>
                /\ T(r) >= Min(SP(r) - SpecPredicted(r, status[r].outdoor_bin), SP(r))
                /\ Elapsed(r) >= cfg.min_on_seconds)

\* an anticipatory switch OFF below the setpoint
C9_Witness ==
    \E r \in RoomSet(rooms) :
        /\ Stepped(r) /\ tick[r].mode # "off"
        /\ tick[r].heating_cmd = 1 /\ heating_cmd[r] = 0
        /\ T(r) < SP(r)

-----------------------------------------------------------------------------
(* C10: the predicted overshoot written by a tick is the larger of the      *)
(* bin's learned estimate (0 for a bin never observed) and heating slope    *)
(* times tau, the latter counted only when the slope is set and > 0.        *)
C10_PredictedOvershoot ==
    \A r \in RoomSet(rooms) :
        status[r].kind = "step" =>
            status[r].predicted_overshoot = SpecPredicted(r, status[r].outdoor_bin)

\* the slope term exceeds a learned estimate that is itself > 0
C10_Witness ==
    \E r \in RoomSet(rooms) :
        /\ status[r].kind = "step"
        /\ Est(r, status[r].outdoor_bin) > 0
        /\ status[r].predicted_overshoot > Est(r, status[r].outdoor_bin)

\* the bins as the documentation lists them, in degC
DocBins == {<<-30, -10>>, <<-10, 0>>, <<0, 10>>, <<10, 20>>, <<20, 35>>, <<35, 60>>}
DocKey == (<<-30, -10>> :> "-30..-10") @@ (<<-10, 0>> :> "-10..0")
          @@ (<<0, 10>> :> "0..10") @@ (<<10, 20>> :> "10..20")
          @@ (<<20, 35>> :> "20..35") @@ (<<35, 60>> :> "35..60")
DocHolds(b, t) == b[1] * 1000 <= t /\ t < b[2] * 1000

\* the documented key of an outdoor temperature
DocKeyOf(o) ==
    IF o # None /\ \E b \in DocBins : DocHolds(b, Val(o))
    THEN DocKey[CHOOSE b \in DocBins : DocHolds(b, Val(o))]
    ELSE "unknown"

\* C11: the bin key of a tick is the key of the one documented bin whose
\* half-open interval [lo, hi) holds the outdoor temperature, and "unknown"
\* when the temperature is absent or in no bin
C11_BinnerHalfOpen ==
    \A r \in RoomSet(rooms) :
        Stepped(r) =>
            LET o == tick[r].outdoor
                k == status[r].outdoor_bin
            IN  IF o = None \/ Val(o) < -30000 \/ Val(o) >= 60000
                THEN k = "unknown"
                ELSE /\ Cardinality({b \in DocBins : DocHolds(b, Val(o))}) = 1
                     /\ \E b \in DocBins : DocHolds(b, Val(o)) /\ k = DocKey[b]

\* a tick that read an outdoor temperature on the edge shared by two bins
C11_Witness ==
    \E r \in RoomSet(rooms) :
        /\ Stepped(r)
        /\ tick[r].outdoor = Some(-10000)
        /\ status[r].outdoor_bin = "-10..0"

\* C12: the mode of a cycle is off only when mode.txt holds "off" (in any
\* letter case); every other content, and a missing file, gives auto
C12_OffOnlyWhenStoredOff ==
    pc = "rooms" =>
        (mode = "off" <=> (mode_file # None /\ Lower(Val(mode_file)) = "off"))

\* C13: a tick whose temperature input is absent or unparseable decides
\* with the room's configured setpoint as its temperature
C13_AbsentTempIsSetpoint ==
    \A r \in RoomSet(rooms) :
        (Stepped(r) /\ tick[r].temp_raw = None) =>
            T(r) = safe_read_float(tick[r].setp_raw, DEFAULT_SETPOINT)

\* C14: a tick whose hysteresis override is absent or unparseable decides
\* with the configured global hysteresis, whatever its value
C14_AbsentOverrideIsGlobal ==
    \A r \in RoomSet(rooms) :
        (Stepped(r) /\ tick[r].hyst_raw = None) => H(r) = cfg.global_hysteresis

Forced(r) == tick[r].kind = "forced"

\* C15: after the tick of a disabled zone the command, in memory and as
\* written, is OFF, and the slope averages, the zone's learned bins, the
\* last temperature and the last observation time are those of before
C15_DisabledOffNoLearning ==
    \A r \in RoomSet(rooms) :
        Forced(r) =>
            /\ heating_cmd[r] = 0
            /\ cmd_file[r] = 0
            /\ ema_slope_on[r] = tick[r].ema_slope_on
            /\ ema_slope_off[r] = tick[r].ema_slope_off
            /\ NodeNow(r) = tick[r].node
            /\ last_temp[r] = tick[r].last_temp
            /\ last_ts[r] = tick[r].last_ts

\* a disabled zone with learned bins, forced OFF in a later cycle while
\* another zone is heating
C15_Witness ==
    \E r \in RoomSet(rooms) :
        /\ Forced(r)
        /\ cycles >= 1
        /\ r \in DOMAIN learning
        /\ learning[r].bins # EmptyBins
        /\ \E q \in RoomSet(rooms) : heating_cmd[q] = 1

Faulted(r) == tick[r].kind = "fault"

\* C17: after a tick in which the zone's step raised, the zone's command
\* and its switch timestamp are those of before the tick
C17_FaultLeavesCommand ==
    \A r \in RoomSet(rooms) :
        Faulted(r) =>
            /\ heating_cmd[r] = tick[r].heating_cmd
            /\ last_switch_ts[r] = tick[r].last_switch_ts

\* C18: a tick whose temperature read failed decides with the last
\* temperature the zone read before it
C18_FailedReadUsesLastGood ==
    \A r \in RoomSet(rooms) :
        (Stepped(r) /\ tick[r].temp_raw = None /\ tick[r].last_temp # None) =>
            T(r) = Val(tick[r].last_temp)

\* the cycle before this one ran far enough to give its first room a tick
PrevCycleRan == tick[rooms[1]].kind # "none"

\* C19: a cycle whose mode read failed runs with the mode of the cycle
\* before it (the mode its first room's last tick ran with), so that a
\* cycle after an off cycle is an off cycle again
C19_FailedModeReadKeepsMode ==
    (pc = "rooms" /\ idx = 1 /\ mode_file = None /\ PrevCycleRan) =>
        mode = tick[rooms[1]].mode

\* the room had its tick in the cycle that is running (the clock moves on
\* between cycles only)
TickedNow(r) == tick[r].kind # "none" /\ tick[r].ts = now

\* C20: when the loop has stopped, no tick was cut short, the cycle it
\* stopped in processed either every zone or none, and every zone's
\* command in memory is the command written to its file
C20_StopBetweenCycles ==
    pc = "stopped" =>
        /\ \A r \in RoomSet(rooms) : tick[r].kind # "interrupted"
        /\ \/ \A r \in RoomSet(rooms) : TickedNow(r)
           \/ \A r \in RoomSet(rooms) : ~TickedNow(r)
        /\ \A r \in RoomSet(rooms) : heating_cmd[r] = cmd_file[r]

IoHas(e) == \E i \in 1..Len(io) : io[i] = e

\* the last cycle the model follows has come to its sleep
LastCycleDone == cycles = MaxCycles - 1 /\ pc = "sleep"

\* C21: whatever fails in them, cycle follows cycle up to the last one
\* unless the stop signal arrives, and a loop that has stopped has tried
\* to save the learning store as its last act
C21_LoopGoesOn ==
    /\ <>(LastCycleDone \/ pc = "stopped")
    /\ [](pc = "stopped" =>
            /\ io # <<>>
            /\ io[Len(io)] \in {"exit_persist", "exit_persist_failed"})

\* a new cycle begins after a cycle in which a zone's step raised and both
\* the save of the learning store and the status write failed
C21_Witness ==
    /\ pc = "read"
    /\ cycles >= 1
    /\ IoHas("persist_failed")
    /\ IoHas("status_all_failed")
    /\ \E r \in RoomSet(rooms) : Faulted(r) /\ tick[r].ts < now

\* C23: a cycle that has come to its sleep has processed every registered
\* zone in order, then saved the learning store once, whether the save
\* succeeded or failed, then written the aggregated status
C23_PersistOncePerCycle ==
    pc = "sleep" =>
        /\ Len(io) = Len(rooms) + 2
        /\ \A i \in 1..Len(rooms) : io[i] = rooms[i]
        /\ io[Len(rooms) + 1] \in {"persist", "persist_failed"}
        /\ io[Len(rooms) + 2] \in {"status_all", "status_all_failed"}

-----------------------------------------------------------------------------
(* C24 *)

\* the last tick began with the zone OFF and an episode open
OffWithEpisode(r) ==
    /\ Stepped(r)
    /\ tick[r].heating_cmd = 0
    /\ tick[r].pending_ov # None

\* C24: on a tick that begins with the zone OFF and an episode open, the
\* episode is closed (recorded) exactly when the temperature is at least
\* 0.01 below that of the previous tick or at least 15 minutes have passed
\* since it was opened; if it is not closed and the zone stays OFF it stays
\* open with the same start and setpoint and peak = max(peak, temperature).
\* The tick that opens an episode records nothing, and after every tick an
\* episode still open is younger than 15 minutes.
C24_EpisodeClosesIff ==
    \A r \in RoomSet(rooms) :
        /\ OffWithEpisode(r) =>
              /\ (RecordedBins(r) # {}) <=> SpecCloses(r)
              /\ (~SpecCloses(r) /\ heating_cmd[r] = 0) =>
                    pending_ov[r] =
                        Some([Val(tick[r].pending_ov) EXCEPT
                                 !.peak_temp = Max(@, T(r))])
        /\ OpenedOnTick(r) => RecordedBins(r) = {}
        /\ (Stepped(r) /\ pending_ov[r] # None) =>
              tick[r].ts - Val(pending_ov[r]).off_ts < 15 * 60

\* an episode has been closed by the 15 minutes alone, the temperature not
\* having dropped
C24_Witness ==
    \E r \in RoomSet(rooms) :
        /\ OffWithEpisode(r)
        /\ RecordedBins(r) # {}
        /\ T(r) >= Val(tick[r].last_temp)

-----------------------------------------------------------------------------
(* C25 *)

\* the last tick closed the episode that was open when it began
ClosedOnTick(r) == OffWithEpisode(r) /\ SpecCloses(r)

\* the observation the design folds in on the closing tick: the highest
\* temperature from the tick of the switch OFF to this one, over the
\* setpoint read on the tick of the switch
SpecObserved(r) ==
    Max(0, Max(Val(tick[r].since_off).max_temp, T(r))
           - Val(tick[r].since_off).setpoint)

\* section 4.4 of the design: the estimate after one more observation
SpecRecorded(est, cnt, obs) ==
    IF cnt = 0 THEN Max(0, obs) ELSE (80 * est + 20 * Max(0, obs)) \div 100

\* C25: the tick that closes an episode records exactly one observation,
\* max(0, peak - setpoint_at_off), where peak is the highest temperature
\* from the tick of the switch OFF to the closing tick and setpoint_at_off
\* is the setpoint read on the tick of the switch, whatever the setpoint is
\* now; it goes to the bin of the closing tick's outdoor temperature, no
\* other bin changes, and the episode is gone.
C25_ObservedOvershoot ==
    \A r \in RoomSet(rooms) :
        ClosedOnTick(r) =>
            LET key == DocKeyOf(tick[r].outdoor)
                node == tick[r].node
            IN  /\ tick[r].since_off # None
                /\ pending_ov[r] = None
                /\ Cnt(r, key) = CntIn(node, key) + 1
                /\ Est(r, key) = SpecRecorded(EstIn(node, key), CntIn(node, key),
                                              SpecObserved(r))
                /\ \A k \in BinKeys \ {key} :
                      /\ Est(r, k) = EstIn(node, k)
                      /\ Cnt(r, k) = CntIn(node, k)

\* the example of the design: OFF at 21.3 with setpoint 21.0, then 21.6,
\* then 21.5; meanwhile the setpoint was lowered and the weather changed
\* bin.  0.6 is recorded in the bin of the closing tick.
C25_Witness ==
    \E r \in RoomSet(rooms) :
        /\ ClosedOnTick(r)
        /\ Val(tick[r].pending_ov).temp_at_off = 21300
        /\ Val(tick[r].since_off).max_temp = 21600
        /\ T(r) = 21500
        /\ Val(tick[r].since_off).setpoint = 21000
        /\ SP(r) = 20000
        /\ Val(tick[r].since_off).outdoor = Some(5000)
        /\ tick[r].outdoor = Some(15000)
        /\ Est(r, "10..20") = 600 /\ Cnt(r, "10..20") = 1
        /\ Cnt(r, "0..10") = 0

-----------------------------------------------------------------------------
(* C26 *)

\* the last tick was a step that switched the zone from ON to OFF
SwitchedOff(r) == Stepped(r) /\ tick[r].heating_cmd = 1 /\ heating_cmd[r] = 0

\* C26: every switch from ON to OFF made by step, whatever caused it, opens
\* an episode whose start is the tick's timestamp, whose temperature at the
\* switch and peak are the tick's temperature and whose setpoint is the
\* tick's setpoint; a tick without such a switch opens no episode (the
\* zone has none, or the one it had before the tick).
C26_EpisodeOpenedOnSwitchOff ==
    \A r \in RoomSet(rooms) :
        IF SwitchedOff(r)
        THEN pending_ov[r] = Some([off_ts |-> tick[r].ts, temp_at_off |-> T(r),
                                   setpoint_at_off |-> SP(r), peak_temp |-> T(r)])
        ELSE \/ pending_ov[r] = None
             \/ /\ tick[r].pending_ov # None
                /\ Val(pending_ov[r]).off_ts = Val(tick[r].pending_ov).off_ts
                /\ Val(pending_ov[r]).off_ts < tick[r].ts

\* a zone has been switched OFF by the mode while below its setpoint, and
\* the episode is open
C26_Witness ==
    \E r \in RoomSet(rooms) :
        /\ SwitchedOff(r)
        /\ tick[r].mode = "off"
        /\ T(r) < SP(r)
        /\ pending_ov[r] # None

-----------------------------------------------------------------------------
(* C27 *)

\* C27: record_overshoot(zone, bin, observed) sets the estimate of the bin
\* to max(0, observed) when its count is 0 and to 0.8 * estimate + 0.2 *
\* max(0, observed) otherwise, adds exactly 1 to its count and changes no
\* other (zone, bin) entry; and no operation on the model lowers a count.
C27_RecordOvershoot ==
    [][/\ \A r \in RoomSet(rooms), key \in RecordKeys, observed \in RecordInputs :
             RecordOvershoot(r, key, observed) =>
                 /\ Est(r, key)' = SpecRecorded(Est(r, key), Cnt(r, key), observed)
                 /\ Cnt(r, key)' = Cnt(r, key) + 1
                 /\ \A r2 \in RoomSet(rooms), k2 \in BinKeys :
                       <<r2, k2>> # <<r, key>> =>
                           /\ Est(r2, k2)' = Est(r2, k2)
                           /\ Cnt(r2, k2)' = Cnt(r2, k2)
       /\ \A r \in RoomSet(rooms), k \in BinKeys : Cnt(r, k)' >= Cnt(r, k)
      ]_vars

\* two observations, 0.7 then 0.3, have been recorded in the bin of an
\* unknown outdoor temperature, and none in the bin next to it
C27_Witness ==
    \E r \in RoomSet(rooms) :
        /\ Est(r, "unknown") = 620 /\ Cnt(r, "unknown") = 2
        /\ Est(r, "0..10") = 0 /\ Cnt(r, "0..10") = 0

\* no step of the controller lowers a count
CountsNeverDecrease ==
    [][\A r \in RoomSet(rooms), k \in BinKeys : Cnt(r, k)' >= Cnt(r, k)]_vars

-----------------------------------------------------------------------------
(* C28 *)

\* the last tick was a step with a previous tick to measure a slope from
Observed(r) == Stepped(r) /\ tick[r].last_temp # None

\* seconds since the previous tick, and the slope measured over them, in
\* 0.001 degC per minute
Dt(r) == tick[r].ts - Val(tick[r].last_ts)
Measured(r) == ((T(r) - Val(tick[r].last_temp)) * 60) \div Dt(r)

\* the zone's average of the phase it was in when the tick began, before
\* and after the tick
OldEma(r) == IF tick[r].heating_cmd = 1 THEN tick[r].ema_slope_on
             ELSE tick[r].ema_slope_off
NewEma(r) == IF tick[r].heating_cmd = 1 THEN ema_slope_on[r] ELSE ema_slope_off[r]

-----------------------------------------------------------------------------
(* C29 *)

\* section 4.4 of the design: the average after one observation
SpecEma(old, measured, dt) ==
    IF old = None THEN Some(measured)
    ELSE Some((300 * Val(old) + dt * measured) \div (300 + dt))

\* the slopes the store holds for the zone
StoredSlope(node, phase) ==
    IF node = None THEN None
    ELSE IF phase = "on" THEN Val(node).ema_slope_on ELSE Val(node).ema_slope_off

\* C29: a tick of an enabled zone other than its first updates exactly one
\* slope average, from the temperature change since the previous tick per
\* elapsed minute: the heating one if the command was ON when the tick
\* began, the idle one if it was OFF; the other average is as before.  The
\* zone's first tick changes neither, a zone that has not been stepped
\* has both unset, and the store holds the updated average and keeps the
\* other slope it held.
C29_OneSlopePerTick ==
    \A r \in RoomSet(rooms) :
        /\ tick[r].kind = "none" => ema_slope_on[r] = None /\ ema_slope_off[r] = None
        /\ (Stepped(r) /\ ~Observed(r)) =>
              /\ ema_slope_on[r] = tick[r].ema_slope_on
              /\ ema_slope_off[r] = tick[r].ema_slope_off
              /\ StoredSlope(NodeNow(r), "on") = StoredSlope(tick[r].node, "on")
              /\ StoredSlope(NodeNow(r), "off") = StoredSlope(tick[r].node, "off")
        /\ (Observed(r) /\ tick[r].heating_cmd = 1) =>
              /\ ema_slope_on[r] = SpecEma(tick[r].ema_slope_on, Measured(r), Dt(r))
              /\ ema_slope_off[r] = tick[r].ema_slope_off
              /\ StoredSlope(NodeNow(r), "on") = ema_slope_on[r]
              /\ StoredSlope(NodeNow(r), "off") = StoredSlope(tick[r].node, "off")
        /\ (Observed(r) /\ tick[r].heating_cmd = 0) =>
              /\ ema_slope_off[r] = SpecEma(tick[r].ema_slope_off, Measured(r), Dt(r))
              /\ ema_slope_on[r] = tick[r].ema_slope_on
              /\ StoredSlope(NodeNow(r), "off") = ema_slope_off[r]
              /\ StoredSlope(NodeNow(r), "on") = StoredSlope(tick[r].node, "on")

\* a tick that began ON has made the first heating observation and left
\* an idle average learned earlier as it was
C29_Witness ==
    \E r \in RoomSet(rooms) :
        /\ Observed(r)
        /\ tick[r].heating_cmd = 1
        /\ tick[r].ema_slope_on = None /\ ema_slope_on[r] # None
        /\ ema_slope_off[r] # None
        /\ Measured(r) # Val(ema_slope_off[r])

-----------------------------------------------------------------------------
(* C30 *)

\* the zone's override and the global hysteresis the last tick read
Override(r) == Val(tick[r].hyst_raw)
Global == cfg.global_hysteresis

\* the last tick reported h as its hysteresis and both rules worked with
\* it: from OFF the zone went ON exactly at or below setpoint - h (and
\* below the cutoff) once the min-off hold was over; at or above setpoint
\* + h the zone is OFF, and below it a zone inside its min-on hold stayed
\* ON
RulesUsed(r, h) ==
    /\ H(r) = h
    /\ tick[r].heating_cmd = 0 =>
          (heating_cmd[r] = 1 <=>
              /\ tick[r].mode # "off"
              /\ T(r) <= SP(r) - h
              /\ T(r) < SP(r) + h
              /\ OffHoldOver(r))
    /\ T(r) >= SP(r) + h => heating_cmd[r] = 0
    /\ (/\ tick[r].heating_cmd = 1
        /\ tick[r].mode # "off"
        /\ Elapsed(r) < cfg.min_on_seconds
        /\ T(r) < SP(r) + h) => heating_cmd[r] = 1

\* C30 as stated: on every tick the hysteresis used by the OFF->ON rule and
\* by the safety cutoff is max(zone override, global hysteresis) and is not
\* negative, whatever the override and the global hysteresis are.
C30_HystIsMaxOfTwo ==
    \A r \in RoomSet(rooms) :
        (Stepped(r) /\ tick[r].hyst_raw # None) =>
            /\ RulesUsed(r, Max(Override(r), Global))
            /\ H(r) >= 0

\* C30, amended: ... is max(0, zone override, global hysteresis), hence
\* not negative, whatever the override and the global hysteresis are.
C30_HystIsMaxOfTwoAndZero ==
    \A r \in RoomSet(rooms) :
        (Stepped(r) /\ tick[r].hyst_raw # None) =>
            /\ RulesUsed(r, Max(0, Max(Override(r), Global)))
            /\ H(r) >= 0

\* with both settings negative a zone below its setpoint has been switched
\* ON at a temperature where a cutoff at setpoint + max(override, global)
\* would have kept it OFF: the hysteresis used was 0
C30_Witness ==
    \E r \in RoomSet(rooms) :
        /\ Stepped(r)
        /\ tick[r].hyst_raw # None
        /\ Override(r) < 0 /\ Global < 0
        /\ tick[r].heating_cmd = 0 /\ heating_cmd[r] = 1
        /\ T(r) >= SP(r) + Max(Override(r), Global)
        /\ H(r) = 0

-----------------------------------------------------------------------------
(* C31 *)

\* the predicted overshoot the last tick reported
Pred(r) == status[r].predicted_overshoot

\* C31: with tau >= 0 the predicted overshoot of every tick is >= 0, so the
\* anticipatory trigger is setpoint - predicted overshoot and never above
\* the setpoint: a zone that is ON in a mode other than off, below the
\* safety cutoff, is switched OFF exactly when its min-on hold is over and
\* the temperature is at or above setpoint - predicted overshoot, and
\* always when the hold is over at or above the setpoint.
C31_PredictedNonNegative ==
    \A r \in RoomSet(rooms) :
        (Stepped(r) /\ cfg.tau_minutes >= 0) =>
            /\ Pred(r) >= 0
            /\ SP(r) - Pred(r) <= SP(r)
            /\ (/\ tick[r].mode # "off"
                /\ tick[r].heating_cmd = 1
                /\ T(r) < SP(r) + H(r)) =>
                  /\ heating_cmd[r] = 0 <=>
                        /\ T(r) >= SP(r) - Pred(r)
                        /\ Elapsed(r) >= cfg.min_on_seconds
                  /\ (T(r) >= SP(r) /\ Elapsed(r) >= cfg.min_on_seconds) =>
                        heating_cmd[r] = 0

\* a zone whose stored estimate and heating slope are both negative has
\* been stepped while ON: the prediction is 0 and the zone, below its
\* setpoint, has stayed ON
C31_Witness ==
    \E r \in RoomSet(rooms) :
        /\ Stepped(r)
        /\ tick[r].heating_cmd = 1 /\ heating_cmd[r] = 1
        /\ tick[r].mode # "off"
        /\ Est(r, status[r].outdoor_bin) < 0
        /\ StoredSlope(NodeNow(r), "on") # None
        /\ Val(StoredSlope(NodeNow(r), "on")) < 0
        /\ Pred(r) = 0
        /\ T(r) < SP(r)

-----------------------------------------------------------------------------
(* C32 *)

\* the last tick found the zone ON in auto mode, at or below setpoint -
\* hysteresis and below the safety cutoff
HeatingInDeadBand(r) ==
    /\ Stepped(r)
    /\ tick[r].mode = "auto"
    /\ tick[r].heating_cmd = 1
    /\ T(r) <= SP(r) - H(r)
    /\ T(r) < SP(r) + H(r)

\* C32: in auto mode a zone that is ON is not switched OFF on a tick whose
\* temperature is at or below setpoint - effective hysteresis, where the
\* OFF->ON rule fires, whatever the learned overshoot and the heating
\* slope are.
C32_NoShutoffBelowDeadBand ==
    \A r \in RoomSet(rooms) : HeatingInDeadBand(r) => heating_cmd[r] = 1

-----------------------------------------------------------------------------
(* C33 *)

\* the last tick of the zone began after the GUI had reset the zone in
\* learning.json, the controller still holding what it had learned
TickAfterReset(r) ==
    /\ Stepped(r)
    /\ tick[r].stored = Some(NewNode)
    /\ tick[r].node # None
    /\ tick[r].node # Some(NewNode)

\* C33: a reset of a room's learning data by the GUI takes effect in the
\* controller's next cycle: the tick of that cycle predicts what the reset
\* model predicts (0 for a zone that was OFF, the reset model having no
\* estimate and no heating slope), and the model persisted at the end of
\* the cycle holds no observation from before the reset.
C33_ResetTakesEffect ==
    \A r \in RoomSet(rooms) :
        TickAfterReset(r) =>
            /\ tick[r].heating_cmd = 0 => Pred(r) = 0
            /\ (pc = "sleep" /\ tick[r].ts = now /\ RecordedBins(r) = {}) =>
                  \A k \in BinKeys : CntIn(Some(learning_file[r]), k) = 0

-----------------------------------------------------------------------------
(* C34 *)

\* C34: in every state between ticks a zone with an open episode has
\* command OFF; an episode that was not open before the last tick was
\* opened by a switch from ON to OFF on that tick.
C34_EpisodeOnlyWhileOff ==
    \A r \in RoomSet(rooms) :
        /\ pending_ov[r] # None => heating_cmd[r] = 0
        /\ (pending_ov[r] # None /\ tick[r].pending_ov = None) =>
              /\ tick[r].heating_cmd = 1
              /\ tick[r].kind # "forced"

\* a zone is OFF between two cycles with an episode that has already
\* lived through a tick after the one that opened it
C34_Witness ==
    \E r \in RoomSet(rooms) :
        /\ pc = "sleep"
        /\ pending_ov[r] # None
        /\ tick[r].pending_ov # None
        /\ heating_cmd[r] = 0

-----------------------------------------------------------------------------
(* C35 *)

\* the last tick, a step or a forced OFF, changed the zone's command
CommandChanged(r) == heating_cmd[r] # tick[r].heating_cmd

\* C35: after a tick of a zone, step or forced OFF, the last-switch
\* timestamp is the tick's timestamp if and only if the tick changed the
\* zone's command; after every other tick it is what it was before.
C35_SwitchTimestamp ==
    \A r \in RoomSet(rooms) :
        tick[r].kind \in {"step", "forced"} =>
            /\ last_switch_ts[r] = tick[r].ts <=> CommandChanged(r)
            /\ ~CommandChanged(r) => last_switch_ts[r] = tick[r].last_switch_ts

\* a zone that had switched before has switched again, and a disabled
\* zone beside it has been forced OFF with no switch recorded
C35_Witness ==
    /\ \E r \in RoomSet(rooms) :
          /\ Stepped(r) /\ CommandChanged(r)
          /\ tick[r].last_switch_ts > 0
          /\ last_switch_ts[r] = tick[r].ts
    /\ \E r \in RoomSet(rooms) :
          /\ tick[r].kind = "forced"
          /\ last_switch_ts[r] = 0

-----------------------------------------------------------------------------
(* C36 *)

\* the rooms of every cycle so far have been processed
RoomsDone == pc = "rooms" /\ idx > Len(rooms)

\* C36: the enabled flag the controller applies to a zone is, on every
\* cycle, the one of the zone map at startup: a zone enabled then is
\* stepped and a zone disabled then is forced OFF, whatever rooms.json
\* says now; the reload at the start of a cycle gives the zones the names
\* of rooms.json and nothing else.
C36_EnabledFixedAtStartup ==
    \A r \in RoomSet(rooms) :
        /\ enabled[r] = (r \notin Supervised.disabled)
        /\ tick[r].kind # "none" =>
              (tick[r].kind = "forced" <=> r \in Supervised.disabled)
        /\ (r \in Supervised.disabled) => heating_cmd[r] = 0 /\ cmd_file[r] = 0
        /\ pc = "rooms" => friendly_name[r] = rooms_file[r].name

\* in a cycle begun after the GUI disabled room1, enabled room2 and renamed
\* room1, room1 has been stepped and switched ON, room2 has been forced OFF
\* and room1 carries its new name
C36_Witness ==
    /\ RoomsDone
    /\ cycles >= 1
    /\ ~rooms_file["room1"].enabled
    /\ rooms_file["room2"].enabled
    /\ friendly_name["room1"] = "Nappali"
    /\ tick["room1"].kind = "step" /\ tick["room1"].ts = now
    /\ tick["room1"].heating_cmd = 0 /\ heating_cmd["room1"] = 1
    /\ tick["room2"].kind = "forced" /\ tick["room2"].ts = now

-----------------------------------------------------------------------------
(* C37 *)

\* the last tick of the room ran to its writes
Completed(r) == tick[r].kind \in {"step", "forced"}

\* C37: after a tick whose command write succeeded the command file holds
\* the zone's internal command; after a tick whose command write failed, or
\* that made none, the file is as it was before the tick, while the tick's
\* decision stands: the internal command is the one the rules give, a
\* change of it is stamped with the tick's time, a switch OFF has opened an
\* episode and a switch ON has removed it, and the status written by the
\* tick carries the internal command.
C37_CommandFileFollowsWrites ==
    \A r \in RoomSet(rooms) :
        tick[r].kind # "none" =>
            /\ cmd_file[r] = IF Completed(r) /\ tick[r].written
                             THEN heating_cmd[r] ELSE tick[r].cmd_file
            /\ Completed(r) =>
                  /\ status[r].heating_command = heating_cmd[r]
                  /\ heating_cmd[r] # tick[r].heating_cmd <=>
                         last_switch_ts[r] = tick[r].ts
                  /\ (tick[r].heating_cmd = 1 /\ heating_cmd[r] = 0) =>
                         pending_ov[r] # None
                  /\ heating_cmd[r] = 1 => pending_ov[r] = None
            /\ (Stepped(r) /\ tick[r].heating_cmd = 0) =>
                  (heating_cmd[r] = 1 <=>
                      /\ tick[r].mode # "off"
                      /\ T(r) <= SP(r) - H(r)
                      /\ T(r) < SP(r) + H(r)
                      /\ OffHoldOver(r))
            /\ (Stepped(r) /\ tick[r].heating_cmd = 1 /\ T(r) >= SP(r) + H(r)) =>
                  heating_cmd[r] = 0

\* the zone was switched ON by a tick whose command write failed, so the
\* file still said OFF; the next tick kept it ON, its write succeeded and
\* the file says ON
C37_Witness ==
    /\ Stepped("room1") /\ tick["room1"].written
    /\ tick["room1"].heating_cmd = 1 /\ heating_cmd["room1"] = 1
    /\ tick["room1"].cmd_file = 0 /\ cmd_file["room1"] = 1
    /\ tick["room1"].last_switch_ts = tick["room1"].last_ts[1]

-----------------------------------------------------------------------------
(* C38 *)

\* the zone has not switched since the controller started
NeverSwitched(r) == tick[r].last_switch_ts = 0

\* C38: until its first tick a zone is OFF with no last switch and no open
\* episode; a zone that never switched is OFF without an episode when a tick
\* begins, and the tick switches it ON whenever the mode is not off and
\* temperature <= setpoint - hysteresis with hysteresis > 0, whatever
\* min_off_seconds is.
C38_FirstSwitchNotHeld ==
    \A r \in RoomSet(rooms) :
        /\ tick[r].kind = "none" =>
              /\ heating_cmd[r] = 0
              /\ last_switch_ts[r] = 0
              /\ pending_ov[r] = None
        /\ (Stepped(r) /\ NeverSwitched(r)) =>
              /\ tick[r].heating_cmd = 0
              /\ tick[r].pending_ov = None
              /\ (tick[r].mode # "off" /\ H(r) > 0 /\ T(r) <= SP(r) - H(r)) =>
                    /\ heating_cmd[r] = 1
                    /\ last_switch_ts[r] = tick[r].ts

\* the first tick of the run switched the zone ON although min_off_seconds
\* is longer than the time on the controller's clock
C38_Witness ==
    \E r \in RoomSet(rooms) :
        /\ Stepped(r) /\ tick[r].last_ts = None
        /\ cfg.min_off_seconds > tick[r].ts
        /\ H(r) > 0 /\ T(r) <= SP(r) - H(r)
        /\ heating_cmd[r] = 1

\* a later switch ON does wait for the hold
LaterSwitchHeld ==
    \E r \in RoomSet(rooms) :
        /\ Stepped(r) /\ ~NeverSwitched(r)
        /\ tick[r].heating_cmd = 0 /\ heating_cmd[r] = 0
        /\ tick[r].mode # "off" /\ T(r) <= SP(r) - H(r)

-----------------------------------------------------------------------------
(* C39 *)

\* the calls of the operation in a trace of the wrapper
Calls(trace) == Cardinality({i \in 1..Len(trace) : trace[i] = "call"})

\* the first attempt that returns, IO_RETRIES + 1 when none does
FirstReturning(fn) ==
    IF \E i \in 1..IO_RETRIES : fn[i].ok
    THEN CHOOSE i \in 1..IO_RETRIES : fn[i].ok /\ \A j \in 1..(i - 1) : ~fn[j].ok
    ELSE IO_RETRIES + 1

\* C39: reading the temperature file, the wrapper calls the read once per
\* attempt up to the first that returns and at most 5 times, waits once
\* between two calls and never before the first or after the last, returns
\* what the first returning attempt returned, and when all 5 attempts raise
\* it raises what the fifth raised; the tick then reads "absent", takes the
\* default temperature and runs to its end.
C39_RetryAtMostFive ==
    \A r \in RoomSet(rooms) :
        tick[r].kind # "none" =>
            LET fn == tick[r].attempts
                rd == tick[r].read
                n == Calls(rd.trace)
                k == FirstReturning(fn)
            IN  /\ n >= 1 /\ n <= 5
                /\ n = IF k <= 5 THEN k ELSE 5
                /\ Len(rd.trace) = 2 * n - 1
                /\ \A i \in 1..Len(rd.trace) :
                      rd.trace[i] = IF i % 2 = 1 THEN "call" ELSE "sleep"
                /\ k <= 5 => /\ rd.raised = None
                             /\ rd.result = Some(fn[k].val)
                             /\ tick[r].temp_raw = Some(fn[k].val)
                             /\ T(r) = fn[k].val
                /\ k > 5 => /\ rd.raised = Some(fn[5].val)
                            /\ rd.result = None
                            /\ tick[r].temp_raw = None
                            /\ T(r) = DEFAULT_SETPOINT
                /\ Stepped(r)

\* a heating zone's read raised EACCES four times and ENOENT the fifth: the
\* wrapper raised ENOENT after five calls and four waits, and the tick ran
\* with the default temperature
C39_Witness ==
    \E r \in RoomSet(rooms) :
        /\ Stepped(r) /\ tick[r].heating_cmd = 1
        /\ tick[r].attempts[1] = Raises(13)
        /\ tick[r].attempts[5] = Raises(2)
        /\ tick[r].read.raised = Some(2)
        /\ Len(tick[r].read.trace) = 9
        /\ T(r) = DEFAULT_SETPOINT

\* the third attempt returned, and the reading of a later attempt was not
\* the one used
ThirdAttemptReturned ==
    \E r \in RoomSet(rooms) :
        /\ Stepped(r)
        /\ tick[r].read.trace = <<"call", "sleep", "call", "sleep", "call">>
        /\ tick[r].attempts[4] = Returns(21300)
        /\ T(r) = 20500

=============================================================================
